---- MODULE Spec2Model ----
(***************************************************************************)
(* Entity-bound resource lifecycle of zycore: the disposer list X (the     *)
(* Bin of the other classes), the keyed registry BinMap and               *)
(* InstanceCollection/InstanceMap.                                         *)
(*                                                                         *)
(* Every operation is one action: the whole call, including the callbacks  *)
(* it runs, is evaluated by the operators below on a record w ("world")    *)
(* that holds the heap of list nodes, the Bin objects, the maps and the    *)
(* observations (which disposers ran, in which order, what was returned,   *)
(* whether an error was raised).                                           *)
(***************************************************************************)
EXTENDS Integers, Sequences, FiniteSets, TLC

\* ---- bounds of the model ------------------------------------------------
\* number of disposer items ever created
MaxItems == 6
\* number of items a user disposer may add when it runs
MaxSpawn == 2
\* generations of disposers adding disposers
MaxDeep == 2
\* call depth at which the runtime raises "stack overflow"
MaxCallDepth == 3
\* number of keys / instances
NumKeys == 2
\* number of items ever created around one BinMap
MaxBinItems == 3
\* number of items ever created around one InstanceMap
MaxCollItems == 6
\* number of instances a ClassWatcher can be pointed at
NumParents == 2
\* number of children of the watched class
NumChildren == 2
\* number of scoped disposers a subscriber registers for one occurrence
MaxScoped == 2
\* number of players
NumPlayers == 2
\* number of character models
NumCharacters == 2
\* number of times watch() subscribes a live GlobalCharacterWatcher
MaxWatches == 2
\* number of threads sharing a Retrier
NumThreads == 2
\* largest maxAtttempts a Retrier is constructed with, besides the default
MaxConfigured == 2
\* number of retry calls a thread makes
MaxCalls == 2
\* number of threads sharing a Mutex
NumWorkers == 3
\* number of times fn yields inside Mutex.run
MaxYields == 1
\* number of run calls a thread makes on the Mutex
MaxRuns == 1
\* number of different items pushed to a Queue
NumItems == 2
\* number of items a Queue is let grow to
MaxQueued == 3
\* rounds of a loop after which the runtime stops it with a script timeout
MaxLoop == 5
\* number of different values a CacheValue is given
NumValues == 4

\* ---- constants of the source ----------------------------------------------
\* maxAtttempts = 5 (default of the Retrier constructor)
DefaultMaxAttempts == 5

\* ---- values ---------------------------------------------------------------
\* undefined (an absent node, bin, value or parent)
NULL == 0
\* the reference of the X under test
TheX == 1

Keys == 1 .. NumKeys

Min(a, b) == IF a < b THEN a ELSE b

VARIABLES
    nodes,   \* heap of Node = { next?, item }, a node is its index
    bins,    \* heap of X / Bin objects: [head, tail], a bin is its index
    map,     \* BinMap.map: key -> bin reference or NULL
    imap,    \* InstanceMap.map: instance -> value or NULL
    conns,   \* AncestryChanged connections: [inst, connected]
    nextId,  \* next identity handed to a created item
    given,   \* per instance: ids of the items passed to bindTo while it is tracked
    log,     \* ids of the items invoked by the last operation, in order
    count,   \* per item: invocations in total, 2 standing for "2 or more"
    lastOp,  \* the last operation: name, arguments, result, error
    watcher, \* the watcher object under test (NULL where there is none)
    host,    \* the Tree Host: parent of each child, players and characters
    fired,   \* the events the last operation delivered to the subscribers
    ended,   \* the child whose occurrence clearCurrent() ended last
    retrier, \* the Retrier under test: [attempts, maxAtttempts]
    mutex,   \* the Mutex under test: [queue]
    queue,   \* the Queue under test: [items, maxItems]
    cacheValue, \* the CacheValue under test: [value, timeout, expirationSeconds]
    threads  \* per thread: where it stands in its call of retry / run

vars == <<nodes, bins, map, imap, conns, nextId, given, log, count, lastOp,
          watcher, host, fired, ended, retrier, mutex, queue, cacheValue,
          threads>>

\* the objects of the utility classes
utils == <<retrier, mutex, queue, cacheValue, threads>>

\* the disposer lists, the collections, the watchers and their Tree Host
lists == <<nodes, bins, map, imap, conns, nextId, given, log, count,
           watcher, host, fired, ended>>

\* ---- items ----------------------------------------------------------------
\* A user function () => unknown: when called it adds n further functions
\* (of one generation less) to the list it came from: the X itself when
\* key = NULL, else the bin of key in the BinMap.
Fn(id, key, n, deep) ==
    [id |-> id, kind |-> "fn", key |-> key, n |-> n, deep |-> deep]

\* A user function that throws when it is called
Thrower(id) ==
    [id |-> id, kind |-> "throw", key |-> NULL, n |-> 0, deep |-> 0]

\* () => this.unbindFrom(instance)
Unbind(id, inst) ==
    [id |-> id, kind |-> "unbind", key |-> inst, n |-> 0, deep |-> 0]

\* the RBXScriptConnection conn
Conn(id, conn) ==
    [id |-> id, kind |-> "conn", key |-> conn, n |-> 0, deep |-> 0]

\* () => this.map.delete(instance)
MapDel(id, inst) ==
    [id |-> id, kind |-> "mapdel", key |-> inst, n |-> 0, deep |-> 0]

\* a user function that stores a value for the instance again:
\* () => map.set(instance, value), the value being named by the id
SetAgain(id, inst) ==
    [id |-> id, kind |-> "set", key |-> inst, n |-> 0, deep |-> 0]

\* () => this.watchers.forEach((_, p) => this.unregister(p))
UnregisterAll ==
    [id |-> NULL, kind |-> "unregisterAll", key |-> NULL, n |-> 0, deep |-> 0]

\* the two pings of a GlobalCharacterWatcher
AddedPing == 1
RemovingPing == 2

\* this.addedPing, this.removingPing as items of a Bin
PingItem(ping) ==
    [id |-> NULL, kind |-> "ping", key |-> ping, n |-> 0, deep |-> 0]

\* the world an operation starts in
World ==
    [nodes |-> nodes, bins |-> bins, map |-> map, imap |-> imap,
     conns |-> conns, nextId |-> nextId, given |-> given, log |-> <<>>,
     count |-> count, raised |-> FALSE, ret |-> NULL,
     watcher |-> watcher, host |-> host, fired |-> <<>>, ended |-> ended]

\* the ids of the items of the nodes linked from node n
RECURSIVE ChainFrom(_, _)
ChainFrom(ns, n) ==
    IF n = NULL THEN <<>>
    ELSE <<ns[n].item.id>> \o ChainFrom(ns, ns[n].next)

Chain(w, b) == ChainFrom(w.nodes, w.bins[b].head)

\* the ids held under key, <<>> when the key has no bin
Held(w, key) == IF w.map[key] = NULL THEN <<>> ELSE Chain(w, w.map[key])

\* the item was invoked (the items a watcher makes itself have no identity)
Invoked(w, item) ==
    IF item.id = NULL THEN w
    ELSE [w EXCEPT !.log = Append(@, item.id), !.count[item.id] = Min(@ + 1, 2)]

\* ---- X (DisposerList) -------------------------------------------------------
\* X.x with a fault: the new node is linked in front of the list, not behind it
X_x_front(w, b, item) ==
    LET node == Len(w.nodes) + 1
    IN  [w EXCEPT !.nodes = Append(@, [item |-> item, next |-> w.bins[b].head]),
                  !.bins[b] = [head |-> node,
                               tail |-> IF @.tail = NULL THEN node ELSE @.tail],
                  !.ret = item.id]

\* X.x(item)
X_x(w, b, item) ==
    LET node == Len(w.nodes) + 1
        hd   == IF w.bins[b].head = NULL THEN node ELSE w.bins[b].head
        tl   == w.bins[b].tail
        ns   == Append(w.nodes, [item |-> item, next |-> NULL])
    IN  [w EXCEPT !.nodes = IF tl # NULL THEN [ns EXCEPT ![tl].next = node] ELSE ns,
                  !.bins[b] = [head |-> hd, tail |-> node],
                  !.ret = item.id]

\* X.size()
X_size(w, b) == [w EXCEPT !.ret = Len(Chain(w, b))]

\* X.isEmpty()
X_isEmpty(w, b) == [w EXCEPT !.ret = (w.bins[b].head = NULL)]

RECURSIVE destroy(_, _, _)

\* ---- BinMap -----------------------------------------------------------------
\* BinMap.getBin(key)
BinMap_getBin(w, key) ==
    IF w.map[key] # NULL THEN [w EXCEPT !.ret = w.map[key]]
    ELSE LET bin == Len(w.bins) + 1
         IN  [w EXCEPT !.bins = Append(@, [head |-> NULL, tail |-> NULL]),
                       !.map[key] = bin,
                       !.ret = bin]

\* BinMap.add(key, item)
BinMap_add(w, key, item) ==
    LET w1 == BinMap_getBin(w, key) IN X_x(w1, w1.ret, item)

\* BinMap.destroy(key)
BinMap_destroy(w, key, d) ==
    LET w1 == BinMap_getBin(w, key)
    IN  [destroy(w1, w1.ret, d) EXCEPT !.ret = NULL]

\* BinMap.delete with a fault: the bin is destroyed but the key is not forgotten
BinMap_delete_keep(w, key, d) ==
    LET w1 == BinMap_getBin(w, key)
        w2 == destroy(w1, w1.ret, d)
    IN  IF w2.raised THEN w2 ELSE [w2 EXCEPT !.ret = (w2.map[key] # NULL)]

\* BinMap.delete(key)
BinMap_delete(w, key, d) ==
    LET w1 == BinMap_getBin(w, key)
        w2 == destroy(w1, w1.ret, d)
    IN  IF w2.raised THEN w2
        ELSE [w2 EXCEPT !.ret = (w2.map[key] # NULL), !.map[key] = NULL]

\* BinMap.isEmpty(key)
BinMap_isEmpty(w, key) ==
    LET w1 == BinMap_getBin(w, key) IN X_isEmpty(w1, w1.ret)

\* BinMap.has with a fault: it goes through getBin like every other operation
BinMap_has_getBin(w, key) ==
    LET w1 == BinMap_getBin(w, key) IN [w1 EXCEPT !.ret = (w.map[key] # NULL)]

\* BinMap.has(key)
BinMap_has(w, key) == [w EXCEPT !.ret = (w.map[key] # NULL)]

\* for (const [, bin] of this.map) bin.destroy(): the table is walked slot by
\* slot; order is the order of the slots, position i is looked at once, and the
\* bin found there at that moment (also one a disposer has just put there) is
\* destroyed
RECURSIVE destroyEach(_, _, _, _)
destroyEach(w, order, i, d) ==
    IF i > Len(order) \/ w.raised THEN w
    ELSE IF w.map[order[i]] = NULL THEN destroyEach(w, order, i + 1, d)
    ELSE destroyEach(destroy(w, w.map[order[i]], d), order, i + 1, d)

\* BinMap.destroyAll()
BinMap_destroyAll(w, order, d) ==
    [destroyEach(w, order, 1, d) EXCEPT !.ret = NULL]

\* BinMap.deleteAll()
BinMap_deleteAll(w, order, d) ==
    LET w1 == destroyEach(w, order, 1, d)
    IN  IF w1.raised THEN w1
        ELSE [w1 EXCEPT !.map = [k \in Keys |-> NULL], !.ret = NULL]

\* ---- InstanceCollection / InstanceMap ---------------------------------------
\* InstanceCollection.unbindFrom(instance)
InstanceCollection_unbindFrom(w, inst, d) == BinMap_delete(w, inst, d)

\* InstanceCollection.unbindFromAll()
InstanceCollection_unbindFromAll(w, order, d) == BinMap_deleteAll(w, order, d)

\* bindTo with a fault: it binds again although the instance is already tracked
InstanceCollection_bindTo_again(w, inst, item) ==
    LET conn == Len(w.conns) + 1
        w1   == BinMap_add([w EXCEPT !.nextId = @ + 2], inst, Unbind(w.nextId, inst))
        w2   == [w1 EXCEPT !.conns = Append(@, [inst |-> inst, connected |-> TRUE])]
        w3   == BinMap_add(w2, inst, Conn(w.nextId + 1, conn))
    IN  [BinMap_add(w3, inst, item) EXCEPT !.ret = NULL]

\* InstanceCollection.bindTo(instance, item)
InstanceCollection_bindTo(w, inst, item) ==
    IF BinMap_has(w, inst).ret THEN [w EXCEPT !.ret = NULL]
    ELSE LET conn == Len(w.conns) + 1
             w1   == BinMap_add([w EXCEPT !.nextId = @ + 2], inst,
                                Unbind(w.nextId, inst))
             w2   == [w1 EXCEPT !.conns =
                          Append(@, [inst |-> inst, connected |-> TRUE])]
             w3   == BinMap_add(w2, inst, Conn(w.nextId + 1, conn))
         IN  [BinMap_add(w3, inst, item) EXCEPT !.ret = NULL]

\* InstanceCollection.onRemoval(instance, item)
InstanceCollection_onRemoval(w, inst, item) ==
    IF ~BinMap_has(w, inst).ret THEN [w EXCEPT !.ret = NULL]
    ELSE [BinMap_add(w, inst, item) EXCEPT !.ret = NULL]

\* the handler with a fault: it unbinds whatever the new parent is
AncestryChanged_any(w, inst, parent) ==
    InstanceCollection_unbindFrom(w, inst, 1)

\* the AncestryChanged handler that bindTo connects
AncestryChanged_handler(w, inst, parent) ==
    IF parent # NULL THEN w
    ELSE InstanceCollection_unbindFrom(w, inst, 1)

\* instance.AncestryChanged fires: every connected handler of the instance
\* runs, each in its own thread (an error in one does not stop the others)
RECURSIVE fireAncestryChanged(_, _, _, _)
fireAncestryChanged(w, inst, parent, c) ==
    IF c > Len(w.conns) THEN [w EXCEPT !.ret = NULL]
    ELSE IF w.conns[c].inst = inst /\ w.conns[c].connected
    THEN LET w1 == AncestryChanged_handler([w EXCEPT !.raised = FALSE], inst, parent)
         IN  fireAncestryChanged([w1 EXCEPT !.raised = w.raised \/ w1.raised],
                                 inst, parent, c + 1)
    ELSE fireAncestryChanged(w, inst, parent, c + 1)

\* set with a fault: the value is stored for an instance that is not tracked
InstanceMap_set_untracked(w, inst, value, item) ==
    [w EXCEPT !.imap[inst] = value]

\* InstanceMap.set(instance, value)
InstanceMap_set(w, inst, value, item) ==
    InstanceCollection_bindTo([w EXCEPT !.imap[inst] = value], inst, item)

\* InstanceMap.delete(instance)
InstanceMap_delete(w, inst) == InstanceCollection_unbindFrom(w, inst, 1)

\* InstanceMap.has(instance)
InstanceMap_has(w, inst) == [w EXCEPT !.ret = (w.imap[inst] # NULL)]

\* InstanceMap.clear()
InstanceMap_clear(w, order) ==
    InstanceCollection_unbindFromAll(
        [w EXCEPT !.imap = [k \in Keys |-> NULL]], order, 1)

\* ---- running an item --------------------------------------------------------
\* the body of a user function: it adds its n items, one after the other
RECURSIVE callFn(_, _, _)
callFn(w, item, k) ==
    IF k = 0 THEN w
    ELSE LET child == Fn(w.nextId, item.key, item.n, item.deep - 1)
             w1    == [w EXCEPT !.nextId = @ + 1]
         IN  callFn(IF item.key = NULL THEN X_x(w1, TheX, child)
                    ELSE BinMap_add(w1, item.key, child),
                    item, k - 1)

\* ping.destroy() of a ping of the GlobalCharacterWatcher
Ping_destroy(w, ping) ==
    IF ping = AddedPing THEN [w EXCEPT !.watcher.addedPing = FALSE]
    ELSE [w EXCEPT !.watcher.removingPing = FALSE]

\* () => this.watchers.forEach((_, p) => this.unregister(p)), defined with
\* GlobalCharacterWatcher below
RECURSIVE unregisterAll(_, _)

\* cleanup(value)
cleanup(w, item, d) ==
    LET w1 == Invoked(w, item)
    IN  CASE item.kind = "fn" ->
                callFn(w1, item, IF item.deep > 0 THEN item.n ELSE 0)
          [] item.kind = "unbind" ->
                InstanceCollection_unbindFrom(w1, item.key, d + 1)
          [] item.kind = "conn" ->
                [w1 EXCEPT !.conns[item.key].connected = FALSE]
          [] item.kind = "throw" ->
                [w1 EXCEPT !.raised = TRUE]
          [] item.kind = "mapdel" ->
                [w1 EXCEPT !.imap[item.key] = NULL]
          [] item.kind = "set" ->
                InstanceMap_set([w1 EXCEPT !.nextId = @ + 1], item.key, item.id,
                                MapDel(w1.nextId, item.key))
          [] item.kind = "unregisterAll" ->
                unregisterAll(w1, 1)
          [] item.kind = "ping" ->
                Ping_destroy(w1, item.key)

\* X.destroy(); a call nested deeper than the runtime's stack allows raises
\* "stack overflow", and an error leaves the loop without advancing head
destroy(w, b, d) ==
    IF d > MaxCallDepth THEN [w EXCEPT !.raised = TRUE]
    ELSE IF w.bins[b].head = NULL THEN w
    ELSE LET head     == w.bins[b].head
             item     == w.nodes[head].item
             nextNode == w.nodes[head].next
             w1       == cleanup(w, item, d)
         IN  IF w1.raised THEN w1
             ELSE destroy([w1 EXCEPT !.bins[b].head = nextNode], b, d)

\* ---- bounding the heap ------------------------------------------------------
\* items a function of n children and deep generations stands for, itself included
RECURSIVE Tree(_, _)
Tree(n, deep) == IF deep = 0 THEN 1 ELSE 1 + n * Tree(n, deep - 1)

\* items that the functions not yet invoked can still add
RECURSIVE PendingFrom(_, _)
PendingFrom(w, i) ==
    IF i = 0 THEN 0
    ELSE (IF w.nodes[i].item.kind = "fn" /\ w.count[w.nodes[i].item.id] = 0
          THEN Tree(w.nodes[i].item.n, w.nodes[i].item.deep) - 1 ELSE 0)
         + PendingFrom(w, i - 1)

Room(w, n, deep, max) ==
    (w.nextId - 1) + PendingFrom(w, Len(w.nodes)) + Tree(n, deep) <= max

\* the orders in which a table of the keys can be walked
Orders ==
    {o \in [1 .. NumKeys -> Keys] : \A i, j \in 1 .. NumKeys : i # j => o[i] # o[j]}

\* ---- garbage ----------------------------------------------------------------
\* Between two operations nothing refers to a bin but the X under test or the
\* BinMap, and nothing to a node but a bin (head, tail) or a node (next): what
\* cannot be reached from there is collected by the runtime, and what is left is
\* numbered again (bins in the order of roots, nodes in the order of creation).
RECURSIVE ReachFrom(_, _)
ReachFrom(ns, n) == IF n = NULL THEN {} ELSE {n} \cup ReachFrom(ns, ns[n].next)

Rank(S, x) == IF x = NULL THEN NULL ELSE Cardinality({y \in S : y <= x})

Nth(S, k) == CHOOSE x \in S : Rank(S, x) = k

Collect(w, roots) ==
    LET live == UNION {ReachFrom(w.nodes, w.bins[roots[r]].head)
                         \cup ReachFrom(w.nodes, w.bins[roots[r]].tail) :
                       r \in DOMAIN roots}
    IN  [w EXCEPT
           !.nodes = [k \in 1 .. Cardinality(live) |->
                        [item |-> w.nodes[Nth(live, k)].item,
                         next |-> Rank(live, w.nodes[Nth(live, k)].next)]],
           !.bins = [r \in DOMAIN roots |->
                        [head |-> Rank(live, w.bins[roots[r]].head),
                         tail |-> Rank(live, w.bins[roots[r]].tail)]],
           !.map = [k \in Keys |->
                        IF w.map[k] = NULL THEN NULL
                        ELSE Cardinality({j \in Keys : j <= k /\ w.map[j] # NULL})]]

\* the bins of the keys of the BinMap, in the order of the keys
RECURSIVE MapRoots(_, _)
MapRoots(w, k) ==
    IF k > NumKeys THEN <<>>
    ELSE (IF w.map[k] = NULL THEN <<>> ELSE <<w.map[k]>>) \o MapRoots(w, k + 1)

\* ---- actions ----------------------------------------------------------------
XOps == {"X.x", "X.destroy", "X.size", "X.isEmpty"}

\* the operation op(key, arg) with item ends in world w0
Commit(w0, op, key, arg, item) ==
    \E w1 \in {w0} :
    \E w \in {Collect(w1, IF op \in XOps THEN <<TheX>> ELSE MapRoots(w1, 1))} :
    /\ nodes' = w.nodes
    /\ bins' = w.bins
    /\ map' = w.map
    /\ imap' = w.imap
    /\ conns' = w.conns
    /\ nextId' = w.nextId
    /\ given' = w.given
    /\ log' = w.log
    /\ count' = w.count
    /\ lastOp' = [op |-> op, key |-> key, arg |-> arg, item |-> item,
                  ret |-> w.ret, raised |-> w.raised, from |-> nextId,
                  was |-> (key # NULL /\ map[key] # NULL),
                  held |-> IF key = NULL THEN <<>> ELSE Held(World, key),
                  given |-> IF key = NULL THEN <<>> ELSE given[key]]
    /\ UNCHANGED <<watcher, host, fired, ended>>
    /\ UNCHANGED utils

\* no Retrier, Mutex, Queue or CacheValue is constructed, no thread runs
NoUtility ==
    /\ retrier = [class |-> "none"]
    /\ mutex = [class |-> "none"]
    /\ queue = [class |-> "none"]
    /\ cacheValue = [class |-> "none"]
    /\ threads = <<>>

InitCommon(ids) ==
    /\ NoUtility
    /\ nodes = <<>>
    /\ imap = [k \in Keys |-> NULL]
    /\ map = [k \in Keys |-> NULL]
    /\ conns = <<>>
    /\ nextId = 1
    /\ given = [k \in Keys |-> <<>>]
    /\ log = <<>>
    /\ count = [i \in 1 .. ids |-> 0]
    /\ lastOp = [op |-> "new", key |-> NULL, arg |-> NULL, item |-> NULL,
                 ret |-> NULL, raised |-> FALSE, from |-> 1, was |-> FALSE,
                 held |-> <<>>, given |-> <<>>]

\* there is no watcher and no Tree Host around an X, a BinMap or an InstanceMap
NoWatcher ==
    /\ watcher = [class |-> "none"]
    /\ host = NULL
    /\ fired = <<>>
    /\ ended = NULL

\* -- X --
\* new X()
InitX ==
    /\ InitCommon(MaxItems)
    /\ NoWatcher
    /\ bins = <<[head |-> NULL, tail |-> NULL]>>

XAdd ==
    \E n \in 1 .. MaxSpawn, deep \in 0 .. MaxDeep, throws \in BOOLEAN :
        /\ (deep = 0 \/ throws) => n = 1
        /\ throws => deep = 0
        /\ Room(World, n, deep, MaxItems)
        /\ Commit(X_x([World EXCEPT !.nextId = @ + 1], TheX,
                      IF throws THEN Thrower(nextId)
                      ELSE Fn(nextId, NULL, n, deep)),
                  "X.x", NULL, throws, nextId)

XDestroy ==
    Commit([destroy(World, TheX, 1) EXCEPT !.ret = NULL],
           "X.destroy", NULL, NULL, NULL)

XSize == Commit(X_size(World, TheX), "X.size", NULL, NULL, NULL)

XIsEmpty == Commit(X_isEmpty(World, TheX), "X.isEmpty", NULL, NULL, NULL)

NextX == XAdd \/ XDestroy \/ XSize \/ XIsEmpty

SpecX == InitX /\ [][NextX]_vars

\* -- BinMap --
\* new BinMap()
InitBinMap ==
    /\ InitCommon(MaxBinItems)
    /\ NoWatcher
    /\ bins = <<>>

\* map.add(key, fn): fn is plain (deep = 0) or adds a plain function to the
\* bin of the key target when it is called
BAdd ==
    \E key \in Keys, target \in Keys, deep \in {0, 1} :
        /\ deep = 0 => target = key
        /\ Room(World, 1, deep, MaxBinItems)
        /\ Commit(BinMap_add([World EXCEPT !.nextId = @ + 1], key,
                             Fn(nextId, target, 1, deep)),
                  "BinMap.add", key, NULL, nextId)

BDestroy ==
    \E key \in Keys :
        Commit(BinMap_destroy(World, key, 1), "BinMap.destroy", key, NULL, NULL)

BDestroyAll ==
    \E order \in Orders :
        Commit(BinMap_destroyAll(World, order, 1),
               "BinMap.destroyAll", NULL, NULL, NULL)

BDelete ==
    \E key \in Keys :
        Commit(BinMap_delete(World, key, 1), "BinMap.delete", key, NULL, NULL)

BDeleteAll ==
    \E order \in Orders :
        Commit(BinMap_deleteAll(World, order, 1),
               "BinMap.deleteAll", NULL, NULL, NULL)

BIsEmpty ==
    \E key \in Keys :
        Commit(BinMap_isEmpty(World, key), "BinMap.isEmpty", key, NULL, NULL)

BHas ==
    \E key \in Keys :
        Commit(BinMap_has(World, key), "BinMap.has", key, NULL, NULL)

BGetBin ==
    \E key \in Keys :
        Commit(BinMap_getBin(World, key), "BinMap.getBin", key, NULL, NULL)

NextBinMap ==
    \/ BAdd
    \/ BDestroy
    \/ BDestroyAll
    \/ BDelete
    \/ BDeleteAll
    \/ BIsEmpty
    \/ BHas
    \/ BGetBin

SpecBinMap == InitBinMap /\ [][NextBinMap]_vars

\* -- InstanceMap --
\* new InstanceMap()
InitColl ==
    /\ InitCommon(MaxCollItems)
    /\ NoWatcher
    /\ bins = <<>>

CollRoom == nextId + 2 <= MaxCollItems

\* the ids given to bindTo for inst, kept while inst stays tracked
Given(w, inst, id) ==
    [w EXCEPT !.given[inst] = IF w.map[inst] = NULL THEN <<>>
                              ELSE IF id = NULL THEN @ ELSE Append(@, id)]

\* map.set(instance, value)
\* map.set(instance, value): every call stores a new value, named by the id
\* of the closure () => this.map.delete(instance) that set creates
ISet ==
    \E inst \in Keys :
        /\ CollRoom
        /\ LET w == InstanceMap_set([World EXCEPT !.nextId = @ + 1], inst, nextId,
                                    MapDel(nextId, inst))
           IN  Commit(Given(w, inst, nextId),
                      "InstanceMap.set", inst, nextId, nextId)

\* map.onRemoval(instance, fn)
IOnRemoval ==
    \E inst \in Keys, again \in BOOLEAN :
        /\ CollRoom
        /\ Commit(InstanceCollection_onRemoval(
                      [World EXCEPT !.nextId = @ + 1], inst,
                      IF again THEN SetAgain(nextId, inst)
                      ELSE Fn(nextId, NULL, 1, 0)),
                  "InstanceCollection.onRemoval", inst, again, nextId)

\* map.delete(instance)
IDelete ==
    \E inst \in Keys :
        LET w == InstanceMap_delete(World, inst)
        IN  Commit(Given(w, inst, NULL), "InstanceMap.delete", inst, NULL, NULL)

\* map.clear()
IClear ==
    \E order \in Orders :
        LET w == InstanceMap_clear(World, order)
        IN  Commit([w EXCEPT !.given =
                       [k \in Keys |-> IF w.map[k] = NULL THEN <<>> ELSE @[k]]],
                   "InstanceMap.clear", NULL, NULL, NULL)

\* map.has(instance)
IHas ==
    \E inst \in Keys :
        Commit(InstanceMap_has(World, inst), "InstanceMap.has", inst, NULL, NULL)

\* the Tree Host reports a new parent (NULL: none) for the instance
IAncestryChanged ==
    \E inst \in Keys, parent \in {NULL, 1} :
        LET w == fireAncestryChanged(World, inst, parent, 1)
        IN  Commit(Given(w, inst, NULL), "AncestryChanged", inst, parent, NULL)

NextColl ==
    \/ ISet
    \/ IOnRemoval
    \/ IDelete
    \/ IClear
    \/ IHas
    \/ IAncestryChanged

SpecColl == InitColl /\ [][NextColl]_vars

\* ---- claims about X ---------------------------------------------------------
Added == 1 .. (nextId - 1)

Increasing(s) == \A i, j \in DOMAIN s : i < j => s[i] < s[j]

\* C1: after every destroy (release) of the list in which no disposer threw,
\* each disposer added so far, before the call or by a disposer running during
\* it, has been invoked exactly once in total.
C1_EachInvokedExactlyOnce ==
    (lastOp.op = "X.destroy" /\ ~lastOp.raised) => \A i \in Added : count[i] = 1

\* C2: when destroy returns without an error, every disposer that was added
\* while it was in progress has been invoked and the list is empty.
C2_AddedDuringReleaseInvoked ==
    (lastOp.op = "X.destroy" /\ ~lastOp.raised) =>
        /\ bins[TheX].head = NULL
        /\ \A i \in lastOp.from .. (nextId - 1) : count[i] >= 1

\* C3: destroy invokes disposers in the order in which they were added (ids
\* are handed out in that order): within one destroy the invoked ids increase,
\* and no destroy invokes a disposer added before one that an earlier destroy
\* has already invoked.
C3_InvokedInAddOrder ==
    [][lastOp'.op = "X.destroy" =>
          /\ Increasing(log')
          /\ \A i \in DOMAIN log' :
                 \A c \in Added : count[c] > 0 => c <= log'[i]]_vars

\* a destroy that invoked at least three disposers, one of them added by
\* a disposer running in that same destroy
C3_Witness ==
    /\ lastOp.op = "X.destroy"
    /\ Len(log) >= 3
    /\ \E i \in DOMAIN log : log[i] >= lastOp.from

\* ---- claims about BinMap ----------------------------------------------------
Occurrences(s, x) == Cardinality({i \in DOMAIN s : s[i] = x})

IsPrefix(a, b) == Len(a) <= Len(b) /\ \A i \in DOMAIN a : a[i] = b[i]

\* the ids held under key in the current state
HeldNow(key) ==
    IF map[key] = NULL THEN <<>> ELSE ChainFrom(nodes, bins[map[key]].head)

\* C9: has(key) answers whether the key has a bin and changes nothing, so a
\* has on an absent key creates no entry; add, destroy, isEmpty and getBin leave
\* the key with a bin; delete of an absent key creates the bin it then removes
\* (it reports true, an entry was removed).
C9_HasNeverCreates ==
    [][/\ lastOp'.op = "BinMap.has" =>
            /\ lastOp'.ret = (map[lastOp'.key] # NULL)
            /\ UNCHANGED <<nodes, bins, map>>
       /\ lastOp'.op \in {"BinMap.add", "BinMap.destroy", "BinMap.isEmpty",
                          "BinMap.getBin"} =>
            map'[lastOp'.key] # NULL
       /\ (lastOp'.op = "BinMap.delete" /\ map[lastOp'.key] = NULL) =>
            lastOp'.ret = TRUE]_vars

\* has was asked about a key without a bin while another key has one
C9_Witness ==
    /\ lastOp.op = "BinMap.has"
    /\ lastOp.ret = FALSE
    /\ map[lastOp.key] = NULL
    /\ \E k \in Keys : map[k] # NULL

\* C10: delete(key) invokes every disposer held under key exactly once, leaves
\* the key without a bin, and invokes no disposer held under another key: what
\* another key held it still holds, in the same order.
C10_DeleteReleasesThenForgets ==
    [][lastOp'.op = "BinMap.delete" =>
          /\ \A i \in DOMAIN lastOp'.held : Occurrences(log', lastOp'.held[i]) = 1
          /\ map'[lastOp'.key] = NULL
          /\ \A k \in Keys \ {lastOp'.key} :
                /\ map[k] # NULL => map'[k] # NULL
                /\ IsPrefix(HeldNow(k), HeldNow(k)')
                /\ \A i \in DOMAIN HeldNow(k) : Occurrences(log', HeldNow(k)[i]) = 0
      ]_vars

\* a delete that invoked two disposers of its key while another key holds one
C10_Witness ==
    /\ lastOp.op = "BinMap.delete"
    /\ Len(lastOp.held) >= 2
    /\ \E k \in Keys \ {lastOp.key} : HeldNow(k) # <<>>

\* ---- claims about InstanceMap -------------------------------------------------
\* the live AncestryChanged subscriptions of the instance
Subscriptions(inst) ==
    {c \in DOMAIN conns : conns[c].inst = inst /\ conns[c].connected}

\* C4: when the Tree Host reports that a tracked instance has no parent any
\* more, the disposer it was tracked with has been invoked exactly once and the
\* instance is no longer tracked (no bin, no subscription), so that tracking it
\* again starts a fresh record.
C4_RemovalInvokesDisposerOnce ==
    (lastOp.op = "AncestryChanged" /\ lastOp.arg = NULL /\ lastOp.was) =>
        /\ count[lastOp.given[1]] = 1
        /\ map[lastOp.key] = NULL
        /\ Subscriptions(lastOp.key) = {}

\* C5: untrack of an instance that was tracked with c1 and then tracked again
\* with c2 invokes c1 and c2, in that order, once each, and has is false after.
C5_RetrackThenUntrack ==
    (lastOp.op = "InstanceMap.delete" /\ lastOp.was /\ Len(lastOp.given) >= 2) =>
        /\ ~lastOp.raised
        /\ SelectSeq(log, LAMBDA i : Occurrences(lastOp.given, i) > 0) = lastOp.given
        /\ imap[lastOp.key] = NULL

\* C6: delete returns true exactly when the instance was tracked before the call.
C6_DeleteReturnsWasTracked ==
    lastOp.op = "InstanceMap.delete" =>
        /\ ~lastOp.raised
        /\ lastOp.ret = lastOp.was

\* C7: an instance never has more than one live removal subscription.
C7_OneSubscriptionPerInstance ==
    \A inst \in Keys : Cardinality(Subscriptions(inst)) <= 1

\* set was called for an instance that was already tracked
C7_Witness ==
    /\ lastOp.op = "InstanceMap.set"
    /\ lastOp.was
    /\ Cardinality(Subscriptions(lastOp.key)) = 1

\* C8: an instance stops being tracked only in a delete, a clear or an ancestry
\* notification without parent; a notification that reports a parent changes
\* nothing: bins, subscriptions and stored values stay, nothing runs or raises.
C8_OnlyUntrackEndsTracking ==
    [][/\ \A inst \in Keys :
            (map[inst] # NULL /\ map'[inst] = NULL) =>
                \/ lastOp'.op \in {"InstanceMap.delete", "InstanceMap.clear"}
                \/ lastOp'.op = "AncestryChanged" /\ lastOp'.arg = NULL
       /\ (lastOp'.op = "AncestryChanged" /\ lastOp'.arg # NULL) =>
            /\ UNCHANGED <<nodes, bins, map, imap, conns, count>>
            /\ log' = <<>>
            /\ ~lastOp'.raised]_vars

\* a tracked instance with a stored value was given a new parent
C8_Witness ==
    /\ lastOp.op = "AncestryChanged"
    /\ lastOp.arg # NULL
    /\ lastOp.was
    /\ imap[lastOp.key] # NULL
    /\ Subscriptions(lastOp.key) # {}

\* ==== ClassWatcher ===========================================================
Parents == 1 .. NumParents

\* the children of the Tree Host; the last one is of another class
Children == 1 .. NumChildren + 1

\* child.IsA(this.className)
IsA(child) == child <= NumChildren

\* instance.FindFirstChildOfClass(this.className): the children of an instance
\* are kept in the order in which they were parented to it
RECURSIVE FirstOfClass(_)
FirstOfClass(kids) ==
    IF kids = <<>> THEN NULL
    ELSE IF IsA(Head(kids)) THEN Head(kids)
    ELSE FirstOfClass(Tail(kids))

FindFirstChildOfClass(w, instance) == FirstOfClass(w.host.kids[instance])

\* the parent of a child, NULL when it has none
ParentOf(h, child) ==
    IF \E p \in Parents : \E i \in DOMAIN h.kids[p] : h.kids[p][i] = child
    THEN CHOOSE p \in Parents : \E i \in DOMAIN h.kids[p] : h.kids[p][i] = child
    ELSE NULL

\* the ids of the scoped disposers of the current occurrence
ScopedNow(w) == Chain(w, w.watcher.currentInstanceBin)

\* the connections that are still connected to event ev of instance
Connected(cs, instance, ev) ==
    {c \in DOMAIN cs : cs[c].connected /\ cs[c].inst = instance /\ cs[c].ev = ev}

\* ClassWatcher.getCurrent()
ClassWatcher_getCurrent(w) == [w EXCEPT !.ret = w.watcher.currentInstance]

\* trash(item): the closure handed to the onAdded subscribers
trash(w) ==
    X_x([w EXCEPT !.nextId = @ + 1, !.count = Append(@, 0)],
        w.watcher.currentInstanceBin, Fn(w.nextId, NULL, 1, 0))

\* an onAdded subscriber: it registers s scoped disposers through trash
RECURSIVE onAddedSubscriber(_, _)
onAddedSubscriber(w, s) ==
    IF s = 0 THEN w ELSE onAddedSubscriber(trash(w), s - 1)

\* this.addedPing.fire(child, trash); open is the occurrence that had not been
\* ended when this one began. The subscriber keeps the trash function (handed).
addedPing_fire(w, child, open, s) ==
    IF ~w.watcher.addedPing THEN w
    ELSE onAddedSubscriber(
             [w EXCEPT !.fired = Append(@, [ev |-> "onAdded", child |-> child,
                                            cur |-> ClassWatcher_getCurrent(w).ret,
                                            open |-> open, at |-> Len(w.log)]),
                       !.watcher.handed = TRUE],
             s)

\* this.removedPing.fire(child); the subscriber looks at getCurrent()
removedPing_fire(w, child) ==
    IF ~w.watcher.removedPing THEN w
    ELSE [w EXCEPT !.fired = Append(@, [ev |-> "onRemoved", child |-> child,
                                        cur |-> ClassWatcher_getCurrent(w).ret,
                                        open |-> NULL, at |-> Len(w.log)])]

\* clearCurrent with a fault: the scoped list is released, the slot is kept
ClassWatcher_clearCurrent_keep(w) ==
    destroy(w, w.watcher.currentInstanceBin, 1)

\* ClassWatcher.clearCurrent()
ClassWatcher_clearCurrent(w) ==
    destroy([w EXCEPT !.watcher.currentInstance = NULL],
            w.watcher.currentInstanceBin, 1)

\* ClassWatcher.added(child)
ClassWatcher_added(w, child, s) ==
    IF ~X_isEmpty(w, w.watcher.currentInstanceBin).ret
       \/ w.watcher.currentInstance = child
    THEN w
    ELSE LET bin == Len(w.bins) + 1
             w1  == [w EXCEPT !.watcher.currentInstance = child,
                              !.bins = Append(@, [head |-> NULL, tail |-> NULL]),
                              !.watcher.currentInstanceBin = bin,
                              !.ended = NULL]
         IN  addedPing_fire(w1, child, w.watcher.currentInstance, s)

\* removed with a fault: the event is delivered before the occurrence is ended
ClassWatcher_removed_early(w, child) ==
    IF w.watcher.currentInstance # child THEN w
    ELSE ClassWatcher_clearCurrent(removedPing_fire(w, child))

\* ClassWatcher.removed(child)
ClassWatcher_removed(w, child) ==
    IF w.watcher.currentInstance # child THEN w
    ELSE removedPing_fire(ClassWatcher_clearCurrent(w), child)

\* linkTo with a fault: it subscribes although the watcher is subscribed
ClassWatcher_linkTo_again(w, instance, s) ==
    IF w.watcher.isDestroyed THEN [w EXCEPT !.raised = TRUE]
    ELSE LET c  == Len(w.conns)
             w1 == [w EXCEPT
                      !.watcher.watchedInstance = instance,
                      !.conns = @ \o
                         <<[inst |-> instance, ev |-> "ChildAdded", connected |-> TRUE],
                           [inst |-> instance, ev |-> "ChildRemoved", connected |-> TRUE]>>]
             w2 == X_x(w1, w1.watcher.bin, Conn(NULL, c + 1))
             w3 == X_x(w2, w2.watcher.bin, Conn(NULL, c + 2))
             child == FindFirstChildOfClass(w3, instance)
         IN  IF w3.watcher.existing /\ child # NULL
             THEN ClassWatcher_added(w3, child, s)
             ELSE w3

\* linkTo with a fault: a destroyed watcher subscribes like any other
ClassWatcher_linkTo_undead(w, instance, s) ==
    IF ~X_isEmpty(w, w.watcher.bin).ret THEN w
    ELSE LET c  == Len(w.conns)
             w1 == [w EXCEPT
                      !.watcher.watchedInstance = instance,
                      !.conns = @ \o
                         <<[inst |-> instance, ev |-> "ChildAdded", connected |-> TRUE],
                           [inst |-> instance, ev |-> "ChildRemoved", connected |-> TRUE]>>]
             w2 == X_x(w1, w1.watcher.bin, Conn(NULL, c + 1))
             w3 == X_x(w2, w2.watcher.bin, Conn(NULL, c + 2))
             child == FindFirstChildOfClass(w3, instance)
         IN  IF w3.watcher.existing /\ child # NULL
             THEN ClassWatcher_added(w3, child, s)
             ELSE w3

\* linkTo with a fault: it never looks for a child that is already there
ClassWatcher_linkTo_blind(w, instance, s) ==
    IF ~X_isEmpty(w, w.watcher.bin).ret THEN w
    ELSE IF w.watcher.isDestroyed THEN [w EXCEPT !.raised = TRUE]
    ELSE LET c  == Len(w.conns)
             w1 == [w EXCEPT
                      !.watcher.watchedInstance = instance,
                      !.conns = @ \o
                         <<[inst |-> instance, ev |-> "ChildAdded", connected |-> TRUE],
                           [inst |-> instance, ev |-> "ChildRemoved", connected |-> TRUE]>>]
             w2 == X_x(w1, w1.watcher.bin, Conn(NULL, c + 1))
         IN  X_x(w2, w2.watcher.bin, Conn(NULL, c + 2))

\* ClassWatcher.linkTo(instance)
ClassWatcher_linkTo(w, instance, s) ==
    IF ~X_isEmpty(w, w.watcher.bin).ret THEN w
    ELSE IF w.watcher.isDestroyed THEN [w EXCEPT !.raised = TRUE]
    ELSE LET c  == Len(w.conns)
             w1 == [w EXCEPT
                      !.watcher.watchedInstance = instance,
                      !.conns = @ \o
                         <<[inst |-> instance, ev |-> "ChildAdded", connected |-> TRUE],
                           [inst |-> instance, ev |-> "ChildRemoved", connected |-> TRUE]>>]
             w2 == X_x(w1, w1.watcher.bin, Conn(NULL, c + 1))
             w3 == X_x(w2, w2.watcher.bin, Conn(NULL, c + 2))
             child == FindFirstChildOfClass(w3, instance)
         IN  IF w3.watcher.existing /\ child # NULL
             THEN ClassWatcher_added(w3, child, s)
             ELSE w3

\* ClassWatcher.watch()
ClassWatcher_watch(w, s) == ClassWatcher_linkTo(w, w.watcher.watchedInstance, s)

\* setWatchedInstance with a fault: it rebuilds for the instance it watches
ClassWatcher_setWatchedInstance_rebuild(w, instance, s) ==
    LET w1 == destroy(w, w.watcher.bin, 1)
        w2 == ClassWatcher_clearCurrent(w1)
    IN  ClassWatcher_linkTo(w2, instance, s)

\* setWatchedInstance with a fault: the occurrence in progress is kept
ClassWatcher_setWatchedInstance_keep(w, instance, s) ==
    IF w.watcher.watchedInstance = instance THEN w
    ELSE ClassWatcher_linkTo(destroy(w, w.watcher.bin, 1), instance, s)

\* ClassWatcher.setWatchedInstance(instance)
ClassWatcher_setWatchedInstance(w, instance, s) ==
    IF w.watcher.watchedInstance = instance THEN w
    ELSE LET w1 == destroy(w, w.watcher.bin, 1)
             w2 == ClassWatcher_clearCurrent(w1)
         IN  ClassWatcher_linkTo(w2, instance, s)

\* destroy with a fault: the occurrence in progress is ended with an event
ClassWatcher_destroy_loud(w) ==
    IF w.watcher.isDestroyed THEN w
    ELSE LET w1 == destroy([w EXCEPT !.watcher.isDestroyed = TRUE], w.watcher.bin, 1)
             w2 == IF w1.watcher.currentInstance = NULL THEN w1
                   ELSE ClassWatcher_removed(w1, w1.watcher.currentInstance)
         IN  [w2 EXCEPT !.watcher.addedPing = FALSE, !.watcher.removedPing = FALSE]

\* ClassWatcher.destroy()
ClassWatcher_destroy(w) ==
    IF w.watcher.isDestroyed THEN w
    ELSE LET w1 == destroy([w EXCEPT !.watcher.isDestroyed = TRUE], w.watcher.bin, 1)
             w2 == ClassWatcher_clearCurrent(w1)
         IN  [w2 EXCEPT !.watcher.addedPing = FALSE, !.watcher.removedPing = FALSE]

\* the ChildAdded handler that linkTo connects
ChildAdded_handler(w, child, s) ==
    IF ~IsA(child) THEN w ELSE ClassWatcher_added(w, child, s)

\* the ChildRemoved handler that linkTo connects
ChildRemoved_handler(w, child) ==
    IF ~IsA(child) THEN w ELSE ClassWatcher_removed(w, child)

\* instance.ChildAdded / instance.ChildRemoved fires for child: every handler
\* that was connected to the event when it fired (cs) runs
RECURSIVE fireChild(_, _, _, _, _, _, _)
fireChild(w, cs, instance, ev, child, s, c) ==
    IF c > Len(cs) THEN w
    ELSE fireChild(IF c \notin Connected(cs, instance, ev) THEN w
                   ELSE IF ev = "ChildAdded" THEN ChildAdded_handler(w, child, s)
                   ELSE ChildRemoved_handler(w, child),
                   cs, instance, ev, child, s, c + 1)

\* -- the state between two operations --
\* A connection that was disconnected never fires again and nothing but the
\* item that disconnected it refers to it: it is dropped and the others are
\* numbered again. The Bin objects left are bin and currentInstanceBin.
DropDisconnected(w) ==
    LET live == {c \in DOMAIN w.conns : w.conns[c].connected}
    IN  [w EXCEPT
           !.conns = [k \in 1 .. Cardinality(live) |-> w.conns[Nth(live, k)]],
           !.nodes = [n \in DOMAIN w.nodes |->
                        IF w.nodes[n].item.kind # "conn" THEN w.nodes[n]
                        ELSE [w.nodes[n] EXCEPT !.item.key =
                                 IF @ \in live THEN Rank(live, @) ELSE NULL]]]

\* A scoped disposer that no node holds any more cannot be invoked again:
\* the identities of those still held are numbered again, in their order.
ForgetDropped(w) ==
    LET ids == {w.nodes[n].item.id : n \in DOMAIN w.nodes} \ {NULL}
    IN  [w EXCEPT
           !.nodes = [n \in DOMAIN w.nodes |->
                        [w.nodes[n] EXCEPT !.item.id = Rank(ids, @)]],
           !.count = [k \in 1 .. Cardinality(ids) |-> w.count[Nth(ids, k)]],
           !.nextId = Cardinality(ids) + 1]

CollectWatcher(w) ==
    LET w1 == DropDisconnected(w)
        w2 == Collect(w1, <<w1.watcher.bin, w1.watcher.currentInstanceBin>>)
    IN  [w2 EXCEPT !.watcher.bin = 1, !.watcher.currentInstanceBin = 2]

\* the operation op(arg) of the watcher or of the Tree Host ends in world w0
CommitWatcher(w0, op, arg) ==
    \E w1 \in {w0} :
    \E w2 \in {CollectWatcher(w1)} :
    \E w \in {ForgetDropped(w2)} :
    /\ nodes' = w.nodes
    /\ bins' = w.bins
    /\ conns' = w.conns
    /\ nextId' = w.nextId
    /\ log' = w.log
    /\ count' = w.count
    /\ watcher' = w.watcher
    /\ host' = w.host
    /\ fired' = w.fired
    /\ ended' = w.ended
    /\ lastOp' = [op |-> op, arg |-> arg, ret |-> w.ret, raised |-> w.raised,
                  ended |-> ended,
                  once |-> \A i \in DOMAIN w1.log : w1.count[w1.log[i]] = 1]
    /\ UNCHANGED <<map, imap, given>>
    /\ UNCHANGED utils

\* new ClassWatcher(watchedInstance, className, existing), nothing parented yet
InitWatcher ==
    /\ InitCommon(0)
    /\ fired = <<>>
    /\ ended = NULL
    /\ bins = <<[head |-> NULL, tail |-> NULL], [head |-> NULL, tail |-> NULL]>>
    /\ \E p \in Parents, e \in BOOLEAN :
         watcher = [class |-> "ClassWatcher", isDestroyed |-> FALSE, bin |-> 1,
                    addedPing |-> TRUE, removedPing |-> TRUE,
                    currentInstance |-> NULL, currentInstanceBin |-> 2,
                    watchedInstance |-> p, existing |-> e, handed |-> FALSE]
    /\ host = [kids |-> [p \in Parents |-> <<>>]]

\* the scoped disposers a subscriber may register for an occurrence
ScopedRoom == 0 .. MaxScoped

IsClassWatcher == watcher.class = "ClassWatcher"

\* watcher.watch()
CWatch ==
    /\ IsClassWatcher
    /\ \E s \in ScopedRoom :
         CommitWatcher([ClassWatcher_watch(World, s) EXCEPT !.ret = NULL],
                       "watch", NULL)

\* watcher.setWatchedInstance(instance)
CSetWatchedInstance ==
    /\ IsClassWatcher
    /\ \E p \in Parents, s \in ScopedRoom :
         CommitWatcher(
             [ClassWatcher_setWatchedInstance(World, p, s) EXCEPT !.ret = NULL],
             "setWatchedInstance", p)

\* watcher.clearCurrent()
CClearCurrent ==
    /\ IsClassWatcher
    /\ CommitWatcher(
           [ClassWatcher_clearCurrent(World) EXCEPT
              !.ret = NULL,
              !.ended = IF watcher.currentInstance # NULL
                        THEN watcher.currentInstance ELSE @],
           "clearCurrent", NULL)

\* watcher.destroy()
CDestroy ==
    /\ IsClassWatcher
    /\ CommitWatcher([ClassWatcher_destroy(World) EXCEPT !.ret = NULL],
                     "destroy", NULL)

\* a subscriber calls trash(item) with a trash function that an earlier onAdded
\* event handed to it
CTrash ==
    /\ IsClassWatcher
    /\ watcher.handed
    /\ X_size(World, watcher.currentInstanceBin).ret < MaxScoped
    /\ CommitWatcher([trash(World) EXCEPT !.ret = NULL], "trash", NULL)

\* child.Parent = parent, for a child that had none
HostChildAdded ==
    /\ IsClassWatcher
    /\ \E child \in Children, p \in Parents, s \in ScopedRoom :
         /\ ParentOf(host, child) = NULL
         /\ CommitWatcher(
                [fireChild([World EXCEPT !.host.kids[p] = Append(@, child)],
                           conns, p, "ChildAdded", child, s, 1)
                   EXCEPT !.ret = NULL],
                "ChildAdded", child)

\* child.Parent = undefined
HostChildRemoved ==
    /\ IsClassWatcher
    /\ \E child \in Children :
         /\ ParentOf(host, child) # NULL
         /\ LET p == ParentOf(host, child)
            IN  CommitWatcher(
                    [fireChild([World EXCEPT !.host.kids[p] =
                                   SelectSeq(@, LAMBDA k : k # child)],
                               conns, p, "ChildRemoved", child, 0, 1)
                       EXCEPT !.ret = NULL,
                              !.ended = IF @ = child THEN NULL ELSE @],
                    "ChildRemoved", child)

NextWatcher ==
    \/ CWatch
    \/ CSetWatchedInstance
    \/ CClearCurrent
    \/ CDestroy
    \/ CTrash
    \/ HostChildAdded
    \/ HostChildRemoved

SpecWatcher == InitWatcher /\ [][NextWatcher]_vars

\* ---- claims about ClassWatcher ----------------------------------------------
\* the watcher is subscribed to its watched instance
Watching == ~X_isEmpty(World, watcher.bin).ret

\* the ids of the scoped disposers of the current occurrence
ScopedHeld == ScopedNow(World)

\* the notification ev(child), delivered when at disposers had run, the
\* subscriber seeing getCurrent() = cur, the occurrence open not yet ended
Event(ev, child, cur, open, at) ==
    [ev |-> ev, child |-> child, cur |-> cur, open |-> open, at |-> at]

\* every disposer the step invoked has now been invoked once in total
RanOnce == lastOp'.once

\* C11: watch() on an instance that has a child of the class fires onAdded
\* exactly once, for that child and inside watch(), when existing is set; it
\* fires nothing when existing is not set
C11_WatchReportsExisting ==
    [][(lastOp'.op = "watch" /\ ~Watching /\ ~watcher.isDestroyed) =>
         LET child == FindFirstChildOfClass(World, watcher.watchedInstance)
         IN  /\ ~lastOp'.raised
             /\ fired' = IF watcher.existing /\ child # NULL
                         THEN <<Event("onAdded", child, child, NULL, 0)>>
                         ELSE <<>>]_vars

C11_Witness ==
    /\ lastOp.op = "watch"
    /\ watcher.existing
    /\ Len(fired) = 1
    /\ fired[1].ev = "onAdded"
    /\ fired[1].child = watcher.currentInstance

\* C12: when the current child is removed, the scoped disposers have each run
\* once and getCurrent() is undefined by the time onRemoved is delivered, and
\* onRemoved is delivered once, with that child
C12_RemovalEndsThenNotifies ==
    [][(lastOp'.op = "ChildRemoved" /\ watcher.currentInstance # NULL
        /\ lastOp'.arg = watcher.currentInstance) =>
         /\ fired' = <<Event("onRemoved", lastOp'.arg, NULL, NULL, Len(ScopedHeld))>>
         /\ log' = ScopedHeld
         /\ RanOnce
         /\ watcher'.currentInstance = NULL
         /\ bins'[watcher'.currentInstanceBin].head = NULL]_vars

C12_Witness ==
    /\ lastOp.op = "ChildRemoved"
    /\ Len(fired) = 1
    /\ fired[1].ev = "onRemoved"
    /\ fired[1].child = lastOp.arg
    /\ Len(log) = 2

\* C13: watch() on a watcher that is watching changes nothing: no subscription
\* is added, nothing is fired, the current child and its scoped disposers stay;
\* and an event never has two subscriptions of the watcher to run
C13_WatchAgainIsNoOp ==
    /\ [](\A p \in Parents : \A ev \in {"ChildAdded", "ChildRemoved"} :
            Cardinality(Connected(conns, p, ev)) <= 1)
    /\ [][(lastOp'.op = "watch" /\ Watching) =>
            /\ ~lastOp'.raised
            /\ fired' = <<>>
            /\ log' = <<>>
            /\ UNCHANGED <<watcher, conns, nodes, bins, count, nextId, host>>]_vars

C13_Witness ==
    /\ lastOp.op = "watch"
    /\ ~lastOp.raised
    /\ watcher.existing
    /\ fired = <<>>
    /\ watcher.currentInstance # NULL
    /\ ScopedHeld # <<>>

\* C15: destroy() raises nothing and fires nothing, releases the scoped
\* disposers of the current occurrence once each, a second destroy() changes
\* nothing, and a destroyed watcher fires nothing whatever happens next
C15_DestroyIdempotentSilent ==
    [][/\ lastOp'.op = "destroy" =>
            /\ ~lastOp'.raised
            /\ fired' = <<>>
            /\ log' = IF watcher.isDestroyed THEN <<>> ELSE ScopedHeld
            /\ RanOnce
            /\ watcher'.isDestroyed
            /\ watcher'.currentInstance = NULL
            /\ conns' = <<>>
            /\ watcher.isDestroyed =>
                 UNCHANGED <<watcher, conns, nodes, bins, count, nextId, host>>
       /\ watcher.isDestroyed => fired' = <<>>]_vars

C15_Witness ==
    /\ lastOp.op = "destroy"
    /\ watcher.isDestroyed
    /\ Len(log) = 2
    /\ fired = <<>>

\* C16: setWatchedInstance(the instance already watched) changes nothing: no
\* subscription dropped or added, the current child kept, no scoped disposer
\* invoked, nothing fired
C16_SameInstanceIsNoOp ==
    [][(lastOp'.op = "setWatchedInstance"
        /\ lastOp'.arg = watcher.watchedInstance) =>
         /\ ~lastOp'.raised
         /\ fired' = <<>>
         /\ log' = <<>>
         /\ UNCHANGED <<watcher, conns, nodes, bins, count, nextId, host>>]_vars

C16_Witness ==
    /\ lastOp.op = "setWatchedInstance"
    /\ lastOp.arg = watcher.watchedInstance
    /\ Watching
    /\ fired = <<>>
    /\ watcher.currentInstance # NULL
    /\ ScopedHeld # <<>>

\* C17: setWatchedInstance(another instance) on a live watcher releases the
\* scoped disposers of the occurrence in progress without onRemoved, leaves
\* no subscription on the old instance, subscribes to the new one and, when
\* existing is set, fires onAdded for the child the new instance already has
C17_RedirectRebuilds ==
    [][(lastOp'.op = "setWatchedInstance"
        /\ lastOp'.arg # watcher.watchedInstance
        /\ ~watcher.isDestroyed) =>
         LET child == FindFirstChildOfClass(World, lastOp'.arg)
         IN  /\ ~lastOp'.raised
             /\ log' = ScopedHeld
             /\ RanOnce
             /\ watcher'.watchedInstance = lastOp'.arg
             /\ conns' = <<[inst |-> lastOp'.arg, ev |-> "ChildAdded",
                            connected |-> TRUE],
                           [inst |-> lastOp'.arg, ev |-> "ChildRemoved",
                            connected |-> TRUE]>>
             /\ IF watcher.existing /\ child # NULL
                THEN /\ fired' = <<Event("onAdded", child, child, NULL,
                                         Len(ScopedHeld))>>
                     /\ watcher'.currentInstance = child
                ELSE /\ fired' = <<>>
                     /\ watcher'.currentInstance = NULL]_vars

C17_Witness ==
    /\ lastOp.op = "setWatchedInstance"
    /\ lastOp.arg = watcher.watchedInstance
    /\ log # <<>>
    /\ Len(fired) = 1
    /\ fired[1].ev = "onAdded"
    /\ fired[1].at = Len(log)

\* C18: an occurrence never begins (onAdded) while another child's occurrence
\* has not been ended: ChildAdded for a child other than the current one is
\* ignored
C18_OtherChildIgnored ==
    \A i \in DOMAIN fired : fired[i].ev = "onAdded" => fired[i].open = NULL

\* C19: clearCurrent() releases the scoped disposers once each, clears the
\* current child and fires nothing; when the child it ended is removed later,
\* nothing is fired either
C19_ClearCurrentEndsSilently ==
    [][/\ lastOp'.op = "clearCurrent" =>
            /\ ~lastOp'.raised
            /\ fired' = <<>>
            /\ log' = ScopedHeld
            /\ RanOnce
            /\ watcher'.currentInstance = NULL
            /\ bins'[watcher'.currentInstanceBin].head = NULL
       /\ (lastOp'.op = "ChildRemoved" /\ lastOp'.arg = ended) =>
            fired' = <<>>]_vars

C19_Witness ==
    /\ lastOp.op = "ChildRemoved"
    /\ lastOp.arg = lastOp.ended
    /\ Watching
    /\ watcher.currentInstance = NULL
    /\ fired = <<>>

\* ==== CharacterWatcher and GlobalCharacterWatcher ============================
Players == 1 .. NumPlayers

Characters == 1 .. NumCharacters

\* the Players service, as the instance a connection is made on
PlayersService == NULL

\* the CharacterWatcher object o
Obj(w, o) == w.watcher.objs[o]

\* a notification delivered by a ping of class by
Notified(w, by, ev, player, char) ==
    [w EXCEPT !.fired = Append(@, [by |-> by, ev |-> ev, player |-> player,
                                   char |-> char])]

\* GlobalCharacterWatcher.added(player, char)
GlobalCharacterWatcher_added(w, player, char) ==
    IF ~w.watcher.addedPing THEN w
    ELSE Notified(w, "GlobalCharacterWatcher", "onAdded", player, char)

\* GlobalCharacterWatcher.removing(player, char)
GlobalCharacterWatcher_removing(w, player, char) ==
    IF ~w.watcher.removingPing THEN w
    ELSE Notified(w, "GlobalCharacterWatcher", "onRemoving", player, char)

\* CharacterWatcher.added(char): the listener of the ping is the one that
\* register connected (tag is the player it captured), or a subscriber
CharacterWatcher_added(w, o, char) ==
    IF ~Obj(w, o).addedPing THEN w
    ELSE LET w1 == Notified(w, "CharacterWatcher", "onAdded", Obj(w, o).player, char)
         IN  IF Obj(w, o).tag = NULL THEN w1
             ELSE GlobalCharacterWatcher_added(w1, Obj(w, o).tag, char)

\* CharacterWatcher.removing(char)
CharacterWatcher_removing(w, o, char) ==
    IF ~Obj(w, o).removingPing THEN w
    ELSE LET w1 == Notified(w, "CharacterWatcher", "onRemoving", Obj(w, o).player, char)
         IN  IF Obj(w, o).tag = NULL THEN w1
             ELSE GlobalCharacterWatcher_removing(w1, Obj(w, o).tag, char)

\* CharacterWatcher.linkTo(player)
CharacterWatcher_linkTo(w, o, player) ==
    IF ~X_isEmpty(w, Obj(w, o).bin).ret THEN w
    ELSE IF Obj(w, o).isDestroyed THEN [w EXCEPT !.raised = TRUE]
    ELSE LET c  == Len(w.conns)
             w1 == [w EXCEPT
                      !.watcher.objs[o].player = player,
                      !.conns = @ \o
                         <<[inst |-> player, ev |-> "CharacterAdded",
                            connected |-> TRUE, obj |-> o],
                           [inst |-> player, ev |-> "CharacterRemoving",
                            connected |-> TRUE, obj |-> o]>>]
             w2 == X_x(w1, Obj(w1, o).bin, Conn(NULL, c + 1))
             w3 == X_x(w2, Obj(w2, o).bin, Conn(NULL, c + 2))
             char == w3.host.character[player]
         IN  IF Obj(w3, o).existing /\ char # NULL
             THEN CharacterWatcher_added(w3, o, char)
             ELSE w3

\* CharacterWatcher.watch()
CharacterWatcher_watch(w, o) == CharacterWatcher_linkTo(w, o, Obj(w, o).player)

\* CharacterWatcher.setPlayer(player)
CharacterWatcher_setPlayer(w, o, player) ==
    IF player = Obj(w, o).player THEN w
    ELSE CharacterWatcher_linkTo(destroy(w, Obj(w, o).bin, 1), o, player)

\* CharacterWatcher.destroy()
CharacterWatcher_destroy(w, o) ==
    IF Obj(w, o).isDestroyed THEN w
    ELSE LET w1 == destroy([w EXCEPT !.watcher.objs[o].isDestroyed = TRUE],
                           Obj(w, o).bin, 1)
         IN  [w1 EXCEPT !.watcher.objs[o].addedPing = FALSE,
                        !.watcher.objs[o].removingPing = FALSE]

\* new CharacterWatcher(player, existing); tag is the player captured by the
\* listeners that register connects, NULL for a watcher made by a user
NewCharacterWatcher(bin, player, existing, tag) ==
    [isDestroyed |-> FALSE, bin |-> bin, addedPing |-> TRUE,
     removingPing |-> TRUE, player |-> player, existing |-> existing,
     tag |-> tag]

\* register with a fault: the watcher is kept under the key but never watches
GlobalCharacterWatcher_register_idle(w, player) ==
    IF w.watcher.watchers[player] # NULL THEN w
    ELSE LET o   == Len(w.watcher.objs) + 1
             bin == Len(w.bins) + 1
         IN  [w EXCEPT
                !.bins = Append(@, [head |-> NULL, tail |-> NULL]),
                !.watcher.objs = Append(@, NewCharacterWatcher(
                                     bin, player, w.watcher.existing, player)),
                !.watcher.watchers[player] = o]

\* GlobalCharacterWatcher.register(player)
GlobalCharacterWatcher_register(w, player) ==
    IF w.watcher.watchers[player] # NULL THEN w
    ELSE LET o   == Len(w.watcher.objs) + 1
             bin == Len(w.bins) + 1
             w1  == [w EXCEPT
                       !.bins = Append(@, [head |-> NULL, tail |-> NULL]),
                       !.watcher.objs = Append(@, NewCharacterWatcher(
                                            bin, player, w.watcher.existing, player))]
             w2  == CharacterWatcher_watch(w1, o)
         IN  IF w2.raised THEN w2
             ELSE [w2 EXCEPT !.watcher.watchers[player] = o]

\* unregister with a fault: the watcher is forgotten but not destroyed
GlobalCharacterWatcher_unregister_forget(w, player) ==
    [w EXCEPT !.watcher.watchers[player] = NULL]

\* GlobalCharacterWatcher.unregister(player)
GlobalCharacterWatcher_unregister(w, player) ==
    IF w.watcher.watchers[player] = NULL THEN w
    ELSE LET w1 == CharacterWatcher_destroy(w, w.watcher.watchers[player])
         IN  IF w1.raised THEN w1
             ELSE [w1 EXCEPT !.watcher.watchers[player] = NULL]

\* this.watchers.forEach((_, p) => this.unregister(p)): unregister of one key
\* touches that key and its watcher only, the result is the same in any order
unregisterAll(w, p) ==
    IF p > NumPlayers \/ w.raised THEN w
    ELSE unregisterAll(GlobalCharacterWatcher_unregister(w, p), p + 1)

\* Players.GetPlayers().forEach((p) => this.register(p))
RECURSIVE registerEach(_, _)
registerEach(w, players) ==
    IF players = <<>> \/ w.raised THEN w
    ELSE registerEach(GlobalCharacterWatcher_register(w, Head(players)),
                      Tail(players))

\* watch with a fault: a destroyed watcher subscribes like any other
GlobalCharacterWatcher_watch_undead(w) ==
    LET w1 == registerEach(w, w.host.players)
        c  == Len(w1.conns)
        w2 == [w1 EXCEPT !.conns = @ \o
                 <<[inst |-> PlayersService, ev |-> "PlayerAdded",
                    connected |-> TRUE, obj |-> NULL],
                   [inst |-> PlayersService, ev |-> "PlayerRemoving",
                    connected |-> TRUE, obj |-> NULL]>>]
        w3 == X_x(w2, w2.watcher.bin, Conn(NULL, c + 1))
    IN  IF w1.raised THEN w1
        ELSE X_x(w3, w3.watcher.bin, Conn(NULL, c + 2))

\* GlobalCharacterWatcher.watch()
GlobalCharacterWatcher_watch(w) ==
    IF X_isEmpty(w, w.watcher.bin).ret THEN [w EXCEPT !.raised = TRUE]
    ELSE LET w1 == registerEach(w, w.host.players)
             c  == Len(w1.conns)
             w2 == [w1 EXCEPT !.conns = @ \o
                      <<[inst |-> PlayersService, ev |-> "PlayerAdded",
                         connected |-> TRUE, obj |-> NULL],
                        [inst |-> PlayersService, ev |-> "PlayerRemoving",
                         connected |-> TRUE, obj |-> NULL]>>]
             w3 == X_x(w2, w2.watcher.bin, Conn(NULL, c + 1))
         IN  IF w1.raised THEN w1
             ELSE X_x(w3, w3.watcher.bin, Conn(NULL, c + 2))

\* destroy with a fault: only the pings of the watcher are destroyed
GlobalCharacterWatcher_destroy_pings(w) ==
    [w EXCEPT !.watcher.addedPing = FALSE, !.watcher.removingPing = FALSE]

\* GlobalCharacterWatcher.destroy()
GlobalCharacterWatcher_destroy(w) == destroy(w, w.watcher.bin, 1)

\* Players.PlayerAdded / Players.PlayerRemoving fires for player: every handler
\* that was connected to the event when it fired (cs) runs
RECURSIVE firePlayers(_, _, _, _, _)
firePlayers(w, cs, ev, player, c) ==
    IF c > Len(cs) THEN w
    ELSE firePlayers(
             IF ~(cs[c].connected /\ cs[c].inst = PlayersService /\ cs[c].ev = ev)
             THEN w
             ELSE LET w1 == IF ev = "PlayerAdded"
                            THEN GlobalCharacterWatcher_register(
                                     [w EXCEPT !.raised = FALSE], player)
                            ELSE GlobalCharacterWatcher_unregister(
                                     [w EXCEPT !.raised = FALSE], player)
                  IN  [w1 EXCEPT !.raised = w.raised \/ w1.raised],
             cs, ev, player, c + 1)

\* player.CharacterAdded / player.CharacterRemoving fires for char
RECURSIVE fireCharacter(_, _, _, _, _, _)
fireCharacter(w, cs, ev, player, char, c) ==
    IF c > Len(cs) THEN w
    ELSE fireCharacter(
             IF ~(cs[c].connected /\ cs[c].inst = player /\ cs[c].ev = ev)
             THEN w
             ELSE IF ev = "CharacterAdded"
             THEN CharacterWatcher_added(w, cs[c].obj, char)
             ELSE CharacterWatcher_removing(w, cs[c].obj, char),
             cs, ev, player, char, c + 1)

\* -- the state between two operations --
\* A CharacterWatcher is referred to by the watchers map, by the handlers of its
\* connections, or by the user who made it (user); the others are collected.
\* The Bin objects left are those of the watchers left and, before them, the
\* bin of the GlobalCharacterWatcher if there is one.
LiveObjs(w, user) ==
    {o \in DOMAIN w.watcher.objs :
        \/ o \in user
        \/ \E p \in Players : w.watcher.watchers[p] = o
        \/ \E c \in DOMAIN w.conns : w.conns[c].obj = o}

CollectPlayers(w, live) ==
    LET glob == w.watcher.class = "GlobalCharacterWatcher"
        off  == IF glob THEN 1 ELSE 0
        roots == (IF glob THEN <<w.watcher.bin>> ELSE <<>>)
                 \o [k \in 1 .. Cardinality(live) |-> w.watcher.objs[Nth(live, k)].bin]
        w1   == Collect(w, roots)
    IN  [w1 EXCEPT
           !.watcher.bin = off,
           !.watcher.objs = [k \in 1 .. Cardinality(live) |->
                               [w.watcher.objs[Nth(live, k)] EXCEPT !.bin = k + off]],
           !.watcher.watchers = [p \in Players |-> Rank(live, w.watcher.watchers[p])],
           !.conns = [c \in DOMAIN w.conns |->
                        [w.conns[c] EXCEPT !.obj = Rank(live, @)]]]

\* the operation op(arg) of a watcher or of the Players service ends in w0
CommitPlayers(w0, op, arg) ==
    \E w1 \in {w0} :
    \E w2 \in {DropDisconnected(w1)} :
    \E live \in {LiveObjs(w2, IF w2.watcher.class = "CharacterWatcher"
                              THEN {1} ELSE {})} :
    \E w \in {CollectPlayers(w2, live)} :
    /\ nodes' = w.nodes
    /\ bins' = w.bins
    /\ conns' = w.conns
    /\ watcher' = w.watcher
    /\ host' = w.host
    /\ fired' = w.fired
    /\ lastOp' = [op |-> op, arg |-> arg, ret |-> w.ret, raised |-> w.raised,
                  ended |-> ended,
                  members |-> Cardinality({p \in Players :
                                             watcher.watchers[p] # NULL}),
                  alive |-> Cardinality({o \in DOMAIN w1.watcher.objs :
                                           \/ ~w1.watcher.objs[o].isDestroyed
                                           \/ w1.watcher.objs[o].addedPing
                                           \/ w1.watcher.objs[o].removingPing})]
    /\ UNCHANGED <<map, imap, given, nextId, log, count, ended>>
    /\ UNCHANGED utils

\* nobody has joined yet, nothing has been called
InitPlayers ==
    /\ NoUtility
    /\ imap = [k \in Keys |-> NULL]
    /\ map = [k \in Keys |-> NULL]
    /\ conns = <<>>
    /\ nextId = 1
    /\ given = [k \in Keys |-> <<>>]
    /\ log = <<>>
    /\ count = <<>>
    /\ lastOp = [op |-> "new", arg |-> NULL, ret |-> NULL, raised |-> FALSE,
                 ended |-> NULL]
    /\ fired = <<>>
    /\ ended = NULL
    /\ host = [players |-> <<>>, character |-> [p \in Players |-> NULL]]

\* new CharacterWatcher(player, existing)
InitCharacter ==
    /\ InitPlayers
    /\ nodes = <<>>
    /\ bins = <<[head |-> NULL, tail |-> NULL]>>
    /\ \E p \in Players, e \in BOOLEAN :
         watcher = [class |-> "CharacterWatcher", bin |-> NULL,
                    watchers |-> [q \in Players |-> NULL],
                    addedPing |-> TRUE, removingPing |-> TRUE,
                    existing |-> e, destroyed |-> FALSE,
                    objs |-> <<NewCharacterWatcher(1, p, e, NULL)>>]

\* the bin of a GlobalCharacterWatcher after its constructor
NewGlobalBin ==
    X_x(X_x(X_x([nodes |-> <<>>, bins |-> <<[head |-> NULL, tail |-> NULL]>>,
                 ret |-> NULL],
                1, UnregisterAll), 1, PingItem(AddedPing)), 1, PingItem(RemovingPing))

\* new GlobalCharacterWatcher(existing)
InitGlobal ==
    /\ InitPlayers
    /\ nodes = NewGlobalBin.nodes
    /\ bins = NewGlobalBin.bins
    /\ \E e \in BOOLEAN :
         watcher = [class |-> "GlobalCharacterWatcher", bin |-> 1,
                    watchers |-> [q \in Players |-> NULL],
                    addedPing |-> TRUE, removingPing |-> TRUE,
                    existing |-> e, destroyed |-> FALSE,
                    objs |-> <<>>]

IsCharacterWatcher == watcher.class = "CharacterWatcher"

IsGlobalCharacterWatcher == watcher.class = "GlobalCharacterWatcher"

\* watcher.watch() of the CharacterWatcher
KWatch ==
    /\ IsCharacterWatcher
    /\ CommitPlayers([CharacterWatcher_watch(World, 1) EXCEPT !.ret = NULL],
                     "watch", NULL)

\* watcher.setPlayer(player)
KSetPlayer ==
    /\ IsCharacterWatcher
    /\ \E p \in Players :
         CommitPlayers([CharacterWatcher_setPlayer(World, 1, p) EXCEPT !.ret = NULL],
                       "setPlayer", p)

\* watcher.destroy() of the CharacterWatcher
KDestroy ==
    /\ IsCharacterWatcher
    /\ CommitPlayers([CharacterWatcher_destroy(World, 1) EXCEPT !.ret = NULL],
                     "destroy", NULL)

\* watcher.watch() of the GlobalCharacterWatcher
GWatch ==
    /\ IsGlobalCharacterWatcher
    /\ Cardinality({c \in DOMAIN conns : conns[c].ev = "PlayerAdded"}) < MaxWatches
    /\ CommitPlayers([GlobalCharacterWatcher_watch(World) EXCEPT !.ret = NULL],
                     "watch", NULL)

\* watcher.destroy() of the GlobalCharacterWatcher; destroyed notes the call
GDestroy ==
    /\ IsGlobalCharacterWatcher
    /\ CommitPlayers([GlobalCharacterWatcher_destroy(World) EXCEPT
                        !.ret = NULL, !.watcher.destroyed = TRUE],
                     "destroy", NULL)

InGame(h, p) == \E i \in DOMAIN h.players : h.players[i] = p

\* a player joins
HostPlayerAdded ==
    /\ IsCharacterWatcher \/ IsGlobalCharacterWatcher
    /\ \E p \in Players :
         /\ ~InGame(host, p)
         /\ host.character[p] = NULL
         /\ CommitPlayers(
                [firePlayers([World EXCEPT !.host.players = Append(@, p)],
                             conns, "PlayerAdded", p, 1)
                   EXCEPT !.ret = NULL, !.raised = FALSE],
                "PlayerAdded", p)

\* a player leaves
HostPlayerRemoving ==
    /\ IsCharacterWatcher \/ IsGlobalCharacterWatcher
    /\ \E p \in Players :
         /\ InGame(host, p)
         /\ CommitPlayers(
                [firePlayers(World, conns, "PlayerRemoving", p, 1)
                   EXCEPT !.ret = NULL, !.raised = FALSE,
                          !.host.players = SelectSeq(@, LAMBDA q : q # p)],
                "PlayerRemoving", p)

\* the character of a player spawns
HostCharacterAdded ==
    /\ IsCharacterWatcher \/ IsGlobalCharacterWatcher
    /\ \E p \in Players, char \in Characters :
         /\ InGame(host, p)
         /\ host.character[p] = NULL
         /\ CommitPlayers(
                [fireCharacter([World EXCEPT !.host.character[p] = char],
                               conns, "CharacterAdded", p, char, 1)
                   EXCEPT !.ret = NULL],
                "CharacterAdded", p)

\* the character of a player is about to be removed
HostCharacterRemoving ==
    /\ IsCharacterWatcher \/ IsGlobalCharacterWatcher
    /\ \E p \in Players :
         /\ host.character[p] # NULL
         /\ CommitPlayers(
                [fireCharacter(World, conns, "CharacterRemoving", p,
                               host.character[p], 1)
                   EXCEPT !.ret = NULL, !.host.character[p] = NULL],
                "CharacterRemoving", p)

NextGlobal ==
    \/ GWatch
    \/ GDestroy
    \/ HostPlayerAdded
    \/ HostPlayerRemoving
    \/ HostCharacterAdded
    \/ HostCharacterRemoving

SpecGlobal == InitGlobal /\ [][NextGlobal]_vars

\* a ClassWatcher, a CharacterWatcher or a GlobalCharacterWatcher
InitWatchers == InitWatcher \/ InitCharacter \/ InitGlobal

NextWatchers ==
    \/ NextWatcher
    \/ KWatch
    \/ KSetPlayer
    \/ KDestroy
    \/ NextGlobal

SpecWatchers == InitWatchers /\ [][NextWatchers]_vars

\* ---- claims about the three watchers ----------------------------------------
\* destroy() has been called on the watcher
Destroyed ==
    CASE IsClassWatcher -> watcher.isDestroyed
      [] IsCharacterWatcher -> watcher.objs[1].isDestroyed
      [] IsGlobalCharacterWatcher -> watcher.destroyed

\* C14: once destroy() has been called, every watch() raises and subscribes to
\* nothing, whatever was called before; watch() on a live watcher never raises
C14_WatchAfterDestroyRaises ==
    [][/\ Destroyed => Destroyed'
       /\ (lastOp'.op = "watch" /\ Destroyed) =>
            /\ lastOp'.raised
            /\ conns' = <<>>
            /\ fired' = <<>>
            /\ UNCHANGED <<watcher, nodes, bins, conns>>
       /\ (lastOp'.op = "watch" /\ ~Destroyed) => ~lastOp'.raised]_vars

C14_Witness ==
    /\ IsGlobalCharacterWatcher
    /\ watcher.destroyed
    /\ lastOp.op = "watch"
    /\ lastOp.raised
    /\ host.players # <<>>

\* ---- claims about GlobalCharacterWatcher ------------------------------------
\* the watcher is subscribed to the Players service
GlobalWatching == \E c \in DOMAIN conns : conns[c].ev = "PlayerAdded"

\* the handlers connected to event ev of player
Handlers(player, ev) ==
    {c \in DOMAIN conns :
        conns[c].connected /\ conns[c].inst = player /\ conns[c].ev = ev}

\* onAdded / onRemoving of the watcher of player and its re-firing
Refired(ev, player, char) ==
    <<[by |-> "CharacterWatcher", ev |-> ev, player |-> player, char |-> char],
      [by |-> "GlobalCharacterWatcher", ev |-> ev, player |-> player,
       char |-> char]>>

\* the watchers map holds one live, subscribed CharacterWatcher for each player
\* in the game and there is no other; nothing listens to a player who left
OneWatcherPerPlayer ==
    /\ Len(watcher.objs) = Len(host.players)
    /\ \A p \in Players :
         LET o == watcher.watchers[p]
         IN  IF InGame(host, p)
             THEN /\ o # NULL
                  /\ watcher.objs[o].player = p
                  /\ ~watcher.objs[o].isDestroyed
                  /\ Cardinality(Handlers(p, "CharacterAdded")) = 1
                  /\ Cardinality(Handlers(p, "CharacterRemoving")) = 1
                  /\ \A c \in Handlers(p, "CharacterAdded")
                            \cup Handlers(p, "CharacterRemoving") :
                       conns[c].obj = o
             ELSE /\ o = NULL
                  /\ Handlers(p, "CharacterAdded") = {}
                  /\ Handlers(p, "CharacterRemoving") = {}

\* C20: while the GlobalCharacterWatcher is watching, the watchers map holds
\* exactly one CharacterWatcher for each player in the game; each onAdded /
\* onRemoving of such a watcher is re-fired once, tagged with its player; a
\* player's leaving fires nothing, and nothing is fired for a player who left
C20_OneWatcherPerPlayer ==
    /\ [](GlobalWatching => OneWatcherPerPlayer)
    /\ [](\A i \in DOMAIN fired : InGame(host, fired[i].player))
    /\ [][GlobalWatching =>
            /\ lastOp'.op = "CharacterAdded" =>
                 fired' = Refired("onAdded", lastOp'.arg,
                                  host'.character[lastOp'.arg])
            /\ lastOp'.op = "CharacterRemoving" =>
                 fired' = IF InGame(host, lastOp'.arg)
                          THEN Refired("onRemoving", lastOp'.arg,
                                       host.character[lastOp'.arg])
                          ELSE <<>>
            /\ lastOp'.op \in {"PlayerAdded", "PlayerRemoving"} =>
                 fired' = <<>>]_vars

C20_Witness ==
    /\ GlobalWatching
    /\ Len(watcher.objs) = NumPlayers
    /\ lastOp.op = "CharacterRemoving"
    /\ fired = Refired("onRemoving", lastOp.arg, 1)

\* C21: destroy() of a GlobalCharacterWatcher leaves no member watcher alive,
\* the watchers map empty, no connection to the Players service or to a player
\* and its own Bin empty, without raising; from then on no event of the host
\* fires a notification, and a further destroy() changes nothing and does not
\* raise
C21_DestroyTearsDownAll ==
    /\ [](IsGlobalCharacterWatcher /\ watcher.destroyed =>
            /\ \A p \in Players : watcher.watchers[p] = NULL
            /\ watcher.objs = <<>>
            /\ conns = <<>>
            /\ bins[watcher.bin].head = NULL
            /\ ~watcher.addedPing
            /\ ~watcher.removingPing
            /\ fired = <<>>)
    /\ [][IsGlobalCharacterWatcher /\ lastOp'.op = "destroy" =>
            /\ ~lastOp'.raised
            /\ lastOp'.alive = 0
            /\ watcher.destroyed => UNCHANGED <<watcher, nodes, bins, conns>>]_vars

C21_Witness ==
    /\ IsGlobalCharacterWatcher
    /\ lastOp.op = "destroy"
    /\ lastOp.members = NumPlayers
    /\ \E p \in Players : host.character[p] # NULL
    /\ watcher.objs = <<>>
    /\ conns = <<>>

\* ==== utility classes ========================================================
\* no disposer list, collection or watcher is constructed around a utility
NoLists ==
    /\ NoWatcher
    /\ nodes = <<>>
    /\ bins = <<>>
    /\ imap = [k \in Keys |-> NULL]
    /\ map = [k \in Keys |-> NULL]
    /\ conns = <<>>
    /\ nextId = 1
    /\ given = [k \in Keys |-> <<>>]
    /\ log = <<>>
    /\ count = <<>>

Threads == 1 .. NumThreads

\* ==== Retrier ================================================================
\* the values maxAtttempts is constructed with
Attempts == (0 .. MaxConfigured) \cup {DefaultMaxAttempts}

\* Retrier.reset()
Retrier_reset(r) == [r EXCEPT !.attempts = 0]

\* Retrier.handleFailure(err, opName): no onFailureStep is given; TRUE when the
\* maximum number of attempts has been reached
Retrier_handleFailure(r) == ~(r.attempts < r.maxAtttempts)

\* the while loop of retry from its head to the next task.wait or return, run
\* by thread th; ok tells whether op() returns (TRUE) or throws (FALSE)
Retrier_loop(r, th, ok) ==
    IF ~(r.attempts < r.maxAtttempts)
    THEN [r |-> r, th |-> [th EXCEPT !.pc = "done", !.ret = FALSE]]
    ELSE LET r1  == [r EXCEPT !.attempts = @ + 1]
             th1 == [th EXCEPT !.invoked = @ + 1]
         IN  IF ok
             THEN [r |-> r1,
                   th |-> [th1 EXCEPT !.pc = "done", !.ret = TRUE,
                                      !.succeeded = TRUE]]
             ELSE IF Retrier_handleFailure(r1)
             THEN [r |-> r1, th |-> [th1 EXCEPT !.pc = "done", !.ret = FALSE]]
             ELSE [r |-> r1, th |-> [th1 EXCEPT !.pc = "waiting"]]

\* Retrier.retry(op) up to its first task.wait or its return
Retrier_retry(r, th, ok) ==
    Retrier_loop(Retrier_reset(r),
                 [th EXCEPT !.invoked = 0, !.succeeded = FALSE, !.ret = NULL,
                            !.calls = @ + 1],
                 ok)

\* new Retrier(maxAtttempts), shared by the threads; nothing is called yet
InitRetrier ==
    /\ NoLists
    /\ mutex = [class |-> "none"]
    /\ queue = [class |-> "none"]
    /\ cacheValue = [class |-> "none"]
    /\ \E m \in Attempts :
         retrier = [class |-> "Retrier", attempts |-> 0, maxAtttempts |-> m]
    /\ threads = [t \in Threads |->
                    [pc |-> "idle", invoked |-> 0, succeeded |-> FALSE,
                     ret |-> NULL, calls |-> 0]]
    /\ lastOp = [op |-> "new", arg |-> NULL]

\* thread t calls retrier.retry(op) and runs to the first task.wait or return
RRetry ==
    \E t \in Threads, ok \in BOOLEAN :
      /\ threads[t].pc \in {"idle", "done"}
      /\ threads[t].calls < MaxCalls
      /\ \E n \in {Retrier_retry(retrier, threads[t], ok)} :
           /\ retrier' = n.r
           /\ threads' = [threads EXCEPT ![t] = n.th]
      /\ lastOp' = [op |-> "retry", arg |-> t]
      /\ UNCHANGED <<mutex, queue, cacheValue>>
      /\ UNCHANGED lists

\* task.wait(this.attemptDelay) of thread t returns: the loop goes on
RResume ==
    \E t \in Threads, ok \in BOOLEAN :
      /\ threads[t].pc = "waiting"
      /\ \E n \in {Retrier_loop(retrier, threads[t], ok)} :
           /\ retrier' = n.r
           /\ threads' = [threads EXCEPT ![t] = n.th]
      /\ lastOp' = [op |-> "resume", arg |-> t]
      /\ UNCHANGED <<mutex, queue, cacheValue>>
      /\ UNCHANGED lists

NextRetrier == RRetry \/ RResume

SpecRetrier == InitRetrier /\ [][NextRetrier]_vars

\* ---- claims about Retrier ---------------------------------------------------
\* C22: a call of retry that has returned invoked op at most maxAtttempts
\* times, returned true exactly when an invocation succeeded, and invoked op
\* exactly maxAtttempts times when every invocation threw
C22_RetryUntilSuccessOrMax ==
    \A t \in Threads :
      threads[t].pc = "done" =>
        /\ threads[t].ret = threads[t].succeeded
        /\ threads[t].invoked <= retrier.maxAtttempts
        /\ ~threads[t].succeeded => threads[t].invoked = retrier.maxAtttempts

\* ==== Mutex ==================================================================
Workers == 1 .. NumWorkers

\* A thread is "idle" (outside run), "acquire" (suspended in the
\* coroutine.yield() of acquire), "running" (executing fn), "inside" (suspended
\* by a yield of fn, between acquire and release), "leaving" (in release) or
\* "done" (run has ended). m holds the mutex and the threads; m.overlap notes a
\* thread that left acquire while another one was between acquire and release,
\* m.disorder one that left acquire before a thread that called acquire earlier.

\* acquire returns in thread t
entered(m, t) ==
    [m EXCEPT
       !.overlap = @ \/ \E u \in Workers \ {t} :
                           m.threads[u].pc \in {"running", "inside"},
       !.disorder = @ \/ \E u \in Workers \ {t} :
                            /\ m.threads[u].pc = "acquire"
                            /\ m.threads[u].ticket < m.threads[t].ticket,
       !.threads[t].pc = "running"]

\* acquire with a fault: the caller never waits
Mutex_acquire_barge(m, t) ==
    entered([m EXCEPT !.queue = Append(@, t),
                      !.threads[t].ticket = m.nextTicket,
                      !.nextTicket = @ + 1], t)

\* Mutex.acquire() called by thread t
Mutex_acquire(m, t) ==
    LET m1 == [m EXCEPT !.queue = Append(@, t),
                        !.threads[t].ticket = m.nextTicket,
                        !.nextTicket = @ + 1]
    IN  IF Len(m1.queue) # 1
        THEN [m1 EXCEPT !.threads[t].pc = "acquire"]
        ELSE entered(m1, t)

RECURSIVE Mutex_release(_, _)
\* fn(...args) of thread t goes on, then the finally block of run: the thread
\* yields inside fn while it has yields left, else fn returns or throws and
\* run releases the mutex
body(m, t) ==
    IF m.threads[t].yields > 0
    THEN [m EXCEPT !.threads[t].pc = "inside", !.threads[t].yields = @ - 1]
    ELSE LET m1 == Mutex_release([m EXCEPT !.threads[t].pc = "leaving"], t)
         IN  [m1 EXCEPT !.threads[t].pc = "done",
                        !.threads[t].threw = m.threads[t].throws,
                        !.threads[t].ticket = 0]

\* Mutex.release() called by thread t: coroutine.resume runs the thread at the
\* front until it yields or ends, then release returns
Mutex_release(m, t) ==
    LET m1 == [m EXCEPT !.queue = Tail(@)]
    IN  IF m1.queue = <<>> THEN m1
        ELSE body(entered(m1, m1.queue[1]), m1.queue[1])

\* Mutex.run(fn) called by thread t, up to the first yield or the end of run
Mutex_run(m, t) ==
    LET m1 == Mutex_acquire(m, t)
    IN  IF m1.threads[t].pc = "acquire" THEN m1 ELSE body(m1, t)

\* the mutex and the threads as one record
MutexNow ==
    [queue |-> mutex.queue, nextTicket |-> mutex.nextTicket,
     overlap |-> mutex.overlap, disorder |-> mutex.disorder,
     threads |-> threads]

\* the step of thread t ends in m
CommitMutex(m, op, t) ==
    /\ mutex' = [class |-> "Mutex", queue |-> m.queue,
                 nextTicket |-> m.nextTicket, overlap |-> m.overlap,
                 disorder |-> m.disorder]
    /\ threads' = m.threads
    /\ lastOp' = [op |-> op, arg |-> t, waiting |-> Len(mutex.queue) - 1]
    /\ UNCHANGED <<retrier, queue, cacheValue>>
    /\ UNCHANGED lists

\* new Mutex(); no thread has called it
InitMutex ==
    /\ NoLists
    /\ retrier = [class |-> "none"]
    /\ queue = [class |-> "none"]
    /\ cacheValue = [class |-> "none"]
    /\ mutex = [class |-> "Mutex", queue |-> <<>>, nextTicket |-> 1,
                overlap |-> FALSE, disorder |-> FALSE]
    /\ threads = [t \in Workers |->
                    [pc |-> "idle", ticket |-> 0, yields |-> 0,
                     throws |-> FALSE, threw |-> FALSE, calls |-> 0]]
    /\ lastOp = [op |-> "new", arg |-> NULL, waiting |-> 0]

\* thread t calls mutex.run(fn); fn yields y times, then returns or throws
MRun ==
    \E t \in Workers, y \in 0 .. MaxYields, e \in BOOLEAN :
      /\ threads[t].pc \in {"idle", "done"}
      /\ threads[t].calls < MaxRuns
      /\ CommitMutex(
             Mutex_run([MutexNow EXCEPT
                          !.threads[t] = [pc |-> "idle", ticket |-> 0,
                                          yields |-> y, throws |-> e,
                                          threw |-> FALSE,
                                          calls |-> threads[t].calls + 1]], t),
             "run", t)

\* the scheduler resumes thread t, which had yielded inside fn
MResume ==
    \E t \in Workers :
      /\ threads[t].pc = "inside"
      /\ CommitMutex(body([MutexNow EXCEPT !.threads[t].pc = "running"], t),
                     "resume", t)

NextMutex == MRun \/ MResume

SpecMutex == InitMutex /\ [][NextMutex]_vars

\* ---- claims about Mutex -----------------------------------------------------
\* C23: at most one thread is between its acquire and its release, also across
\* the yields of fn; threads leave acquire in the order in which they called
\* it; a thread whose run has ended, by return or by throw, holds no place in
\* the queue, and the thread at the front of the queue is the one inside
C23_MutualExclusionFifo ==
    /\ ~mutex.overlap
    /\ ~mutex.disorder
    /\ Cardinality({t \in Workers : threads[t].pc = "inside"}) <= 1
    /\ \A t \in Workers :
         /\ threads[t].pc \in {"idle", "acquire", "inside", "done"}
         /\ threads[t].pc \in {"idle", "done"} =>
              \A i \in DOMAIN mutex.queue : mutex.queue[i] # t
         /\ threads[t].pc = "inside" => mutex.queue[1] = t
         /\ threads[t].pc = "acquire" =>
              \E i \in 2 .. Len(mutex.queue) : mutex.queue[i] = t
    /\ mutex.queue # <<>> => threads[mutex.queue[1]].pc = "inside"

C23_Witness ==
    /\ lastOp.op = "resume"
    /\ lastOp.waiting = 2
    /\ threads[lastOp.arg].pc = "done"
    /\ threads[lastOp.arg].threw
    /\ \E t \in Workers : threads[t].pc = "inside"
    /\ \E t \in Workers : threads[t].pc = "acquire"

\* ==== Queue ==================================================================
\* the items pushed
Items == 1 .. NumItems

\* maxItems?: number is {} when undefined and {n} when it is the number n
MaxItemsArgs == {{}} \cup {{n} : n \in 0 .. MaxQueued}

\* a value in a condition: everything but nil and false counts as true
Truthy(v) == ~(v.type = "nil" \/ (v.type = "boolean" /\ ~v.val))

\* Queue.size()
Queue_size(q) == Len(q.items)

\* Queue.isEmpty()
Queue_isEmpty(q) == q.items = <<>>

\* Queue.isFull()
Queue_isFull(q) ==
    q.maxItems # {} /\ \A n \in q.maxItems : Queue_size(q) >= n

\* this.isFull, the method itself and not a call of it
Queue_isFull_method == [type |-> "function", val |-> "isFull"]

\* Queue.pop(): items.shift(), which leaves an empty array as it is
Queue_pop(q) ==
    IF q.items = <<>> THEN [q EXCEPT !.ret = NULL]
    ELSE [q EXCEPT !.items = Tail(@), !.ret = Head(q.items)]

\* Queue.push(...items) with auto flushing off: items go in while the queue is
\* not full and there are items left
RECURSIVE Queue_push(_, _, _)
Queue_push(q, items, inserted) ==
    IF Queue_isFull(q) \/ inserted >= Len(items)
    THEN [q EXCEPT !.ret = inserted]
    ELSE Queue_push([q EXCEPT !.items = Append(@, items[inserted + 1])],
                    items, inserted + 1)

\* Queue.clear()
Queue_clear(q) == [q EXCEPT !.items = <<>>, !.ret = NULL]

\* Queue.flush() without a flusher
Queue_flush(q) == Queue_clear(q)

\* while (this.isFull) this.pop(): a loop that has not ended after MaxLoop
\* rounds is stopped by the runtime with a script timeout error
RECURSIVE Queue_trim(_, _)
Queue_trim(q, rounds) ==
    IF ~Truthy(Queue_isFull_method) THEN [q EXCEPT !.ret = NULL]
    ELSE IF rounds = MaxLoop THEN [q EXCEPT !.ret = NULL, !.raised = TRUE]
    ELSE Queue_trim(Queue_pop(q), rounds + 1)

\* Queue.setMaxItems(maxItems)
Queue_setMaxItems(q, maxItems) ==
    Queue_trim([q EXCEPT !.maxItems = maxItems], 0)

\* the queue at the start of a call
QueueNow ==
    [items |-> queue.items, maxItems |-> queue.maxItems, ret |-> NULL,
     raised |-> FALSE]

\* the call op(arg) ends in q
CommitQueue(q, op, arg) ==
    /\ queue' = [class |-> "Queue", items |-> q.items, maxItems |-> q.maxItems]
    /\ lastOp' = [op |-> op, arg |-> arg, ret |-> q.ret, raised |-> q.raised]
    /\ UNCHANGED <<retrier, mutex, cacheValue, threads>>
    /\ UNCHANGED lists

\* new Queue(maxItems)
InitQueue ==
    /\ NoLists
    /\ retrier = [class |-> "none"]
    /\ mutex = [class |-> "none"]
    /\ cacheValue = [class |-> "none"]
    /\ threads = <<>>
    /\ \E n \in MaxItemsArgs :
         queue = [class |-> "Queue", items |-> <<>>, maxItems |-> n]
    /\ lastOp = [op |-> "new", arg |-> NULL, ret |-> NULL, raised |-> FALSE]

\* queue.push(a) / queue.push(a, b)
QPush ==
    \E a \in Items, b \in Items \cup {NULL} :
      /\ Len(queue.items) + 2 <= MaxQueued
      /\ CommitQueue(Queue_push(QueueNow,
                                IF b = NULL THEN <<a>> ELSE <<a, b>>, 0),
                     "push", <<a, b>>)

\* queue.pop()
QPop == CommitQueue(Queue_pop(QueueNow), "pop", NULL)

\* queue.clear()
QClear == CommitQueue(Queue_clear(QueueNow), "clear", NULL)

\* queue.flush()
QFlush == CommitQueue(Queue_flush(QueueNow), "flush", NULL)

\* queue.setMaxItems(n)
QSetMaxItems ==
    \E n \in MaxItemsArgs :
      CommitQueue(Queue_setMaxItems(QueueNow, n), "setMaxItems", n)

NextQueue == QPush \/ QPop \/ QClear \/ QFlush \/ QSetMaxItems

SpecQueue == InitQueue /\ [][NextQueue]_vars

\* ---- claims about Queue -----------------------------------------------------
\* C24: setMaxItems(n) returns; afterwards the queue holds at most n items (any
\* number when n is undefined), what is left is the rear of what was there, and
\* nothing is dropped from a queue that was not larger than n
C24_SetMaxItemsTrims ==
    [][lastOp'.op = "setMaxItems" =>
         /\ ~lastOp'.raised
         /\ \A n \in lastOp'.arg : Len(queue'.items) <= n
         /\ \E k \in 0 .. Len(queue.items) :
              queue'.items = SubSeq(queue.items, k + 1, Len(queue.items))
         /\ (\A n \in lastOp'.arg : Len(queue.items) <= n) =>
              queue'.items = queue.items]_vars

\* ==== CacheValue =============================================================
\* the values the getter returns or set is given
Values == 1 .. NumValues

\* c holds the fields of the CacheValue (value is NULL when undefined, timeout
\* tells whether a forget timeout is pending, expires whether
\* expirationSeconds is a number, invalidator whether one was supplied), the
\* result ret and fetched, the number of calls of the getter

\* CacheValue.stopForgetting()
CacheValue_stopForgetting(c) ==
    IF ~c.timeout THEN c ELSE [c EXCEPT !.timeout = FALSE]

\* CacheValue.startForgetting()
CacheValue_startForgetting(c) ==
    IF ~c.expires THEN c
    ELSE [CacheValue_stopForgetting(c) EXCEPT !.timeout = TRUE]

\* CacheValue.forget()
CacheValue_forget(c) == [CacheValue_stopForgetting(c) EXCEPT !.value = NULL]

\* CacheValue.fetch(); the getter returns v
CacheValue_fetch(c, v) ==
    [CacheValue_startForgetting([c EXCEPT !.value = v, !.fetched = @ + 1])
       EXCEPT !.ret = v]

\* CacheValue.isValid(); the invalidator, when called, returns valid
CacheValue_isValid(c, valid) ==
    IF c.value = NULL THEN FALSE
    ELSE c.invalidator /\ valid

\* CacheValue.get()
CacheValue_get(c, v, valid) ==
    IF CacheValue_isValid(c, valid) THEN [c EXCEPT !.ret = c.value]
    ELSE CacheValue_fetch(c, v)

\* CacheValue.set(value, forgettable)
CacheValue_set(c, value, forgettable) ==
    IF forgettable THEN CacheValue_startForgetting([c EXCEPT !.value = value])
    ELSE CacheValue_stopForgetting([c EXCEPT !.value = value])

\* CacheValue.setExpirationSeconds(seconds)
CacheValue_setExpirationSeconds(c, defined) ==
    IF defined THEN [c EXCEPT !.expires = TRUE]
    ELSE CacheValue_stopForgetting([c EXCEPT !.expires = FALSE])

\* the CacheValue at the start of a call
CacheValueNow ==
    [value |-> cacheValue.value, timeout |-> cacheValue.timeout,
     expires |-> cacheValue.expires, invalidator |-> cacheValue.invalidator,
     ret |-> NULL, fetched |-> 0]

\* the call op(arg) ends in c; valid is what the invalidator answers if asked
CommitCacheValue(c, op, arg, valid) ==
    /\ cacheValue' = [class |-> "CacheValue", value |-> c.value,
                      timeout |-> c.timeout, expires |-> c.expires,
                      invalidator |-> c.invalidator]
    /\ lastOp' = [op |-> op, arg |-> arg, ret |-> c.ret, fetched |-> c.fetched,
                  valid |-> valid]
    /\ UNCHANGED <<retrier, mutex, queue, threads>>
    /\ UNCHANGED lists

\* new CacheValue(getter, expirationSeconds?, invalidator?)
InitCacheValue ==
    /\ NoLists
    /\ retrier = [class |-> "none"]
    /\ mutex = [class |-> "none"]
    /\ queue = [class |-> "none"]
    /\ threads = <<>>
    /\ \E e \in BOOLEAN, i \in BOOLEAN :
         cacheValue = [class |-> "CacheValue", value |-> NULL,
                       timeout |-> FALSE, expires |-> e, invalidator |-> i]
    /\ lastOp = [op |-> "new", arg |-> NULL, ret |-> NULL, fetched |-> 0,
                 valid |-> TRUE]

\* cache.get(); the getter would return v, the invalidator would answer valid
VGet ==
    \E v \in Values, valid \in BOOLEAN :
      CommitCacheValue(CacheValue_get(CacheValueNow, v, valid), "get", v, valid)

\* cache.set(value, forgettable)
VSet ==
    \E v \in Values, f \in BOOLEAN :
      CommitCacheValue(CacheValue_set(CacheValueNow, v, f), "set", v, TRUE)

\* cache.forget()
VForget == CommitCacheValue(CacheValue_forget(CacheValueNow), "forget", NULL, TRUE)

\* the forget timeout runs out: its callback calls forget()
VExpire ==
    /\ cacheValue.timeout
    /\ CommitCacheValue(CacheValue_forget(CacheValueNow), "expire", NULL, TRUE)

\* cache.setExpirationSeconds(seconds)
VSetExpirationSeconds ==
    \E d \in BOOLEAN :
      CommitCacheValue(CacheValue_setExpirationSeconds(CacheValueNow, d),
                       "setExpirationSeconds", d, TRUE)

NextCacheValue == VGet \/ VSet \/ VForget \/ VExpire \/ VSetExpirationSeconds

SpecCacheValue == InitCacheValue /\ [][NextCacheValue]_vars

\* ---- claims about CacheValue ------------------------------------------------
\* C25: get() on a CacheValue that holds a value (no invalidator, or one that
\* accepts the value) returns that value and does not call the getter; get()
\* on one that holds none calls the getter once and returns what it returned
C25_GetUsesCache ==
    [][lastOp'.op = "get" =>
         /\ (cacheValue.value # NULL
               /\ (~cacheValue.invalidator \/ lastOp'.valid)) =>
              /\ lastOp'.fetched = 0
              /\ lastOp'.ret = cacheValue.value
              /\ cacheValue'.value = cacheValue.value
         /\ cacheValue.value = NULL =>
              /\ lastOp'.fetched = 1
              /\ lastOp'.ret = lastOp'.arg
              /\ cacheValue'.value = lastOp'.arg]_vars

\* ==== further claims about the disposer lists and the collections ============
\* C26: untrack of a tracked instance, by delete or by the notification that
\* the instance has no parent any more, returns without an error, has invoked
\* every disposer the instance's list held exactly once and leaves the
\* instance untracked
C26_UntrackTerminates ==
    (/\ \/ lastOp.op = "InstanceMap.delete"
        \/ lastOp.op = "AncestryChanged" /\ lastOp.arg = NULL
     /\ lastOp.was) =>
        /\ ~lastOp.raised
        /\ \A i \in DOMAIN lastOp.held :
             lastOp.held[i] # NULL => Occurrences(log, lastOp.held[i]) = 1
        /\ map[lastOp.key] = NULL
        /\ Subscriptions(lastOp.key) = {}

\* the instance has a tracking record: a DisposerList and a live subscription
Tracked(inst) == map[inst] # NULL /\ Subscriptions(inst) # {}

Throwers ==
    {nodes[n].item.id : n \in {m \in DOMAIN nodes : nodes[m].item.kind = "throw"}}

\* C28: a destroy in which a disposer throws raises the error to its caller;
\* every destroy invokes only disposers that no earlier destroy has invoked,
\* the one that threw included, and a destroy in which nothing throws leaves
\* the list empty
C28_ThrowerNotRetried ==
    [][lastOp'.op = "X.destroy" =>
         /\ lastOp'.raised = (\E i \in DOMAIN log' : log'[i] \in Throwers)
         /\ \A i \in DOMAIN log' : count[log'[i]] = 0
         /\ ~lastOp'.raised => bins'[TheX].head = NULL]_vars

\* C29: for a live ClassWatcher, in every state between two operations (watch,
\* child events, clearCurrent, setWatchedInstance, calls of trash functions
\* handed out earlier): when getCurrent() is undefined the scoped list of the
\* occurrence is empty.
C29_NoScopedOutsideOccurrence ==
    (IsClassWatcher /\ ~watcher.isDestroyed /\ ClassWatcher_getCurrent(World).ret = NULL)
        => X_isEmpty(World, watcher.currentInstanceBin).ret

\* the ids of the disposers the registry holds, under any key
HeldAnywhere ==
    UNION {{HeldNow(k)[i] : i \in DOMAIN HeldNow(k)} : k \in Keys}

\* C30: when delete(key) or deleteAll() returns, every disposer the registry
\* held when the call began or that was added while it ran has been invoked
\* exactly once, or (delete only) is still held under a key; none has been
\* dropped without having been invoked.
C30_NoneDroppedUninvoked ==
    [][lastOp'.op \in {"BinMap.delete", "BinMap.deleteAll"} =>
         \A i \in 1 .. (nextId' - 1) :
             (i \in HeldAnywhere \/ i >= nextId) =>
                 \/ count'[i] = 1
                 \/ lastOp'.op = "BinMap.delete" /\ count'[i] = 0 /\ i \in HeldAnywhere'
      ]_vars

====
